---- MODULE Spec2Model ----
(***************************************************************************)
(* ChatList: the concurrent multi-provider dispatch engine of network.py.  *)
(* One dispatch (send_to_all_models) starts one thread per Model, each     *)
(* thread runs send_request_to_model and records its result under a lock,  *)
(* and the dispatcher joins all threads before it returns.                 *)
(*                                                                         *)
(* Conventions.  A Python str that the code inspects character by          *)
(* character (a URL, a display name) is a sequence of one-character        *)
(* strings.  A decoded JSON value is a tagged record [t, v].  A message    *)
(* built by an f-string is the sequence of its parts.  The user-visible    *)
(* messages of network.py are Russian; the model writes them in English    *)
(* and names the source line of each.                                      *)
(***************************************************************************)
EXTENDS Integers, Sequences, FiniteSets, TLC

VARIABLES
    objects,      \* the heap: the fields of each Model object the caller holds
    models,       \* send_to_all_models argument: the list of (references to)
                  \* Model objects
    prompt,       \* send_to_all_models argument
    timeout,      \* send_to_all_models argument
    callback,     \* TRUE when a callback was supplied (callback is not None)
    environ,      \* os.environ: the process environment get_api_key reads
    server,       \* which replies the servers of this run can give
    results,      \* network.py:320, the shared result list
    threads,      \* network.py:321, the started threads (worker indexes)
    lock,         \* network.py:322, 0 when free, else the worker holding it
    pcMain,       \* the position of send_to_all_models
    pc,           \* the position of each worker thread
    api_key,      \* send_request_to_model local, per worker
    api_type,     \* send_request_to_model local, per worker
    success,      \* send_to_model local, per worker
    response,     \* send_to_model local, per worker
    posts,        \* the number of requests.post calls issued per worker
    sent,         \* the arguments of the requests.post call of each worker
    got,          \* what the requests.post call of each worker came back with
    calls,        \* the log of callback invocations, in order
    died,         \* per worker: the thread ended by an exception
    joined,       \* how many threads of the list the dispatcher has joined
    other,        \* the frame of a second call of send_to_all_models, made
                  \* from another caller thread: its arguments and locals
    gui           \* main.py:169-190, the RequestThread of the GUI: its loop
                  \* position, its results list and its 'finished' signal

\* the arguments, the locals and the threads of the first call of
\* send_to_all_models, with the process state it reads
dispatch == <<objects, models, prompt, timeout, callback, environ, server, results, threads,
              lock, pcMain, pc, api_key, api_type, success, response, posts, sent, got,
              calls, died, joined>>

vars == <<other, gui, objects, models, prompt, timeout, callback, environ, server, results,
          threads, lock, pcMain, pc, api_key, api_type, success, response, posts, sent, got,
          calls, died, joined>>

-----------------------------------------------------------------------------
(* Bounds of the model *)

MaxModels == 2

-----------------------------------------------------------------------------
(* Python str as a sequence of characters *)

Upper == <<"A","B","C","D","E","F","G","H","I","J","K","L","M",
           "N","O","P","Q","R","S","T","U","V","W","X","Y","Z">>
Lower == <<"a","b","c","d","e","f","g","h","i","j","k","l","m",
           "n","o","p","q","r","s","t","u","v","w","x","y","z">>

\* str.lower() on one character
lowerChar(c) ==
    IF \E k \in 1..Len(Upper) : Upper[k] = c
    THEN Lower[CHOOSE k \in 1..Len(Upper) : Upper[k] = c]
    ELSE c

\* str.lower()
lower(s) == [k \in 1..Len(s) |-> lowerChar(s[k])]

\* Python's  sub in s  for two strings
contains(sub, s) ==
    \E k \in 0..(Len(s) - Len(sub)) :
        \A m \in 1..Len(sub) : s[k + m] = sub[m]

openai_com   == <<"o","p","e","n","a","i",".","c","o","m">>
deepseek_com == <<"d","e","e","p","s","e","e","k",".","c","o","m">>
groq_com     == <<"g","r","o","q",".","c","o","m">>

\* the markers tested in another order, groq.com first
detect_api_type_groq_first(api_url) ==
    LET url_lower == lower(api_url) IN
    IF contains(groq_com, url_lower) THEN "groq"
    ELSE IF contains(openai_com, url_lower) THEN "openai"
    ELSE IF contains(deepseek_com, url_lower) THEN "deepseek"
    ELSE "generic"

\* network.py:27-45
detect_api_type(api_url) ==
    LET url_lower == lower(api_url) IN
    IF contains(openai_com, url_lower) THEN "openai"
    ELSE IF contains(deepseek_com, url_lower) THEN "deepseek"
    ELSE IF contains(groq_com, url_lower) THEN "groq"
    ELSE "generic"

-----------------------------------------------------------------------------
(* The Model objects a caller can pass (models.py:14-29) *)

\* models.py:9-29, a Model object
Model(model_id, name, api_url, api_id, is_active) ==
    [id |-> model_id, name |-> name, api_url |-> api_url,
     api_id |-> api_id, is_active |-> is_active]

Catalogue ==
    << Model(1, <<"G","P","T","-","4">>,
                <<"a",".","O","p","e","n","A","I",".","c","o","m">>,
                "OPENAI_API_KEY", 1),
       Model(2, <<"D","S">>,
                <<"d","e","e","p","s","e","e","k",".","c","o","m">>,
                "DEEPSEEK_API_KEY", 1),
       Model(3, <<"L","l","a","m","a">>,
                <<"g","r","o","q",".","c","o","m","/","v","1">>,
                "GROQ_API_KEY", 0),
       Model(4, <<"m","y"," ","l","m">>,
                <<"l","o","c","a","l","h","o","s","t">>,
                "LOCAL_API_KEY", 1) >>

-----------------------------------------------------------------------------
(* Decoded JSON values and the Python operations the parsers apply to them *)

JNull   == [t |-> "null", v |-> <<>>]
JStr(s) == [t |-> "str", v |-> <<s>>]
JArr(a) == [t |-> "arr", v |-> a]
JObj(f) == [t |-> "obj", v |-> f]

\* an empty dict: a function with the empty domain
EmptyDict == [k \in {} |-> JNull]

\* the outcome of evaluating a Python expression: a value or a raised exception
Value(x)         == [raised |-> FALSE, val |-> x, exc |-> <<"", "">>]
Raise(type, msg) == [raised |-> TRUE, val |-> JNull, exc |-> <<type, msg>>]

\* key in x
py_in(key, x) ==
    CASE x.t = "obj" -> Value(key \in DOMAIN x.v)
      [] x.t = "arr" -> Value(\E k \in 1..Len(x.v) : x.v[k] = JStr(key))
      [] x.t = "str" -> Value(\E k \in 1..Len(x.v) : x.v[k] = key)
      [] OTHER       -> Raise("TypeError", "argument is not iterable")

\* x[key] for a string key
py_getitem(x, key) ==
    CASE x.t = "obj" -> IF key \in DOMAIN x.v THEN Value(x.v[key])
                        ELSE Raise("KeyError", key)
      [] x.t = "arr" -> Raise("TypeError", "list indices must be integers")
      [] x.t = "str" -> Raise("TypeError", "string indices must be integers")
      [] OTHER       -> Raise("TypeError", "object is not subscriptable")

\* x[0]
py_first(x) ==
    CASE x.t = "arr" -> IF Len(x.v) > 0 THEN Value(x.v[1])
                        ELSE Raise("IndexError", "list index out of range")
      [] x.t = "obj" -> Raise("KeyError", "0")
      [] x.t = "str" -> IF Len(x.v) > 0 THEN Value(JStr(x.v[1]))
                        ELSE Raise("IndexError", "string index out of range")
      [] OTHER       -> Raise("TypeError", "object is not subscriptable")

\* len(x)
py_len(x) ==
    CASE x.t = "arr" -> Value(Len(x.v))
      [] x.t = "obj" -> Value(Cardinality(DOMAIN x.v))
      [] x.t = "str" -> Value(Len(x.v))
      [] OTHER       -> Raise("TypeError", "object has no len()")

\* str(x): a str stays itself, anything else becomes the text of its repr
py_str(x) == IF x.t = "str" THEN x ELSE [t |-> "repr", v |-> x]

\* x.get(key, default)
py_get(x, key, default) ==
    IF x.t = "obj"
    THEN Value(IF key \in DOMAIN x.v THEN x.v[key] ELSE default)
    ELSE Raise("AttributeError", "object has no attribute 'get'")

-----------------------------------------------------------------------------
(* Messages of network.py *)

\* network.py:96, 145, 202, 258
MsgFormat == [t |-> "str", v |-> <<"Unexpected API response format">>]

\* the timeout message with the module default instead of the argument
MsgTimeoutDefault(timeout_) ==
    [t |-> "str", v |-> <<"Request timeout (", "30", " s)">>]

\* network.py:99, 148, 205, 261
MsgTimeout(timeout_) ==
    [t |-> "str", v |-> <<"Request timeout (", ToString(timeout_), " s)">>]

\* network.py:101, 150, 207, 263
MsgNetwork(e) == [t |-> "str", v |-> <<"Network error: ", e[2]>>]

\* network.py:103, 152, 209, 265
MsgUnexpected(e) == [t |-> "str", v |-> <<"Unexpected error: ", e[2]>>]

\* network.py:284
MsgNoKey(api_id) ==
    [t |-> "str", v |-> <<"API key '", api_id, "' not found in environment variables">>]

-----------------------------------------------------------------------------
(* The exception classes of requests the handlers tell apart *)

\* subclasses of requests.exceptions.Timeout
TimeoutTypes == {"ConnectTimeout", "ReadTimeout"}

\* subclasses of requests.exceptions.RequestException
RequestExceptionTypes ==
    TimeoutTypes \cup {"ConnectionError", "SSLError", "HTTPError",
                       "requests.JSONDecodeError"}

\* subclasses of Exception: everything the handlers' code can raise
ExceptionTypes ==
    RequestExceptionTypes \cup {"KeyError", "IndexError", "TypeError",
                                "AttributeError", "ValueError", "RuntimeError"}

\* the except clauses without the last one, except Exception
handle_exception_no_catch_all(e, timeout_) ==
    IF e[1] \in TimeoutTypes THEN Value(<<FALSE, MsgTimeout(timeout_)>>)
    ELSE IF e[1] \in RequestExceptionTypes THEN Value(<<FALSE, MsgNetwork(e)>>)
    ELSE Raise(e[1], e[2])

\* the except clauses with RequestException tried before Timeout
handle_exception_network_first(e, timeout_) ==
    IF e[1] \in RequestExceptionTypes THEN Value(<<FALSE, MsgNetwork(e)>>)
    ELSE IF e[1] \in TimeoutTypes THEN Value(<<FALSE, MsgTimeout(timeout_)>>)
    ELSE IF e[1] \in ExceptionTypes THEN Value(<<FALSE, MsgUnexpected(e)>>)
    ELSE Raise(e[1], e[2])

\* network.py:98-103: the except clauses, tried in order
\* (the same clauses close the other handlers: 147-152, 204-209, 260-265);
\* an exception no clause catches leaves the handler
handle_exception(e, timeout_) ==
    IF e[1] \in TimeoutTypes THEN Value(<<FALSE, MsgTimeout(timeout_)>>)
    ELSE IF e[1] \in RequestExceptionTypes THEN Value(<<FALSE, MsgNetwork(e)>>)
    ELSE IF e[1] \in ExceptionTypes THEN Value(<<FALSE, MsgUnexpected(e)>>)
    ELSE Raise(e[1], e[2])

-----------------------------------------------------------------------------
(* The response parsers: what each handler does with  result = response.json() *)

\* a parser that reports a first choice without 'message' or 'content' as
\* the format failure
openai_parse_lenient(result) ==
    LET has == py_in("choices", result) IN
    IF has.raised THEN has
    ELSE IF ~has.val THEN Value(<<FALSE, MsgFormat>>)
    ELSE LET ch == py_getitem(result, "choices") IN
    IF ch.raised THEN ch
    ELSE LET n == py_len(ch.val) IN
    IF n.raised THEN n
    ELSE IF ~(n.val > 0) THEN Value(<<FALSE, MsgFormat>>)
    ELSE LET c0 == py_first(ch.val) IN
    IF c0.raised THEN c0
    ELSE LET m == py_getitem(c0.val, "message") IN
    IF m.raised THEN Value(<<FALSE, MsgFormat>>)
    ELSE LET c == py_getitem(m.val, "content") IN
    IF c.raised THEN Value(<<FALSE, MsgFormat>>)
    ELSE Value(<<TRUE, c.val>>)

\* network.py:93-96
openai_parse(result) ==
    LET has == py_in("choices", result) IN
    IF has.raised THEN has
    ELSE IF ~has.val THEN Value(<<FALSE, MsgFormat>>)
    ELSE LET ch == py_getitem(result, "choices") IN
    IF ch.raised THEN ch
    ELSE LET n == py_len(ch.val) IN
    IF n.raised THEN n
    ELSE IF ~(n.val > 0) THEN Value(<<FALSE, MsgFormat>>)
    ELSE LET c0 == py_first(ch.val) IN
    IF c0.raised THEN c0
    ELSE LET m == py_getitem(c0.val, "message") IN
    IF m.raised THEN m
    ELSE LET c == py_getitem(m.val, "content") IN
    IF c.raised THEN c
    ELSE Value(<<TRUE, c.val>>)

\* network.py:142-145
deepseek_parse(result) ==
    LET has == py_in("choices", result) IN
    IF has.raised THEN has
    ELSE IF ~has.val THEN Value(<<FALSE, MsgFormat>>)
    ELSE LET ch == py_getitem(result, "choices") IN
    IF ch.raised THEN ch
    ELSE LET n == py_len(ch.val) IN
    IF n.raised THEN n
    ELSE IF ~(n.val > 0) THEN Value(<<FALSE, MsgFormat>>)
    ELSE LET c0 == py_first(ch.val) IN
    IF c0.raised THEN c0
    ELSE LET m == py_getitem(c0.val, "message") IN
    IF m.raised THEN m
    ELSE LET c == py_getitem(m.val, "content") IN
    IF c.raised THEN c
    ELSE Value(<<TRUE, c.val>>)

\* network.py:199-202
groq_parse(result) ==
    LET has == py_in("choices", result) IN
    IF has.raised THEN has
    ELSE IF ~has.val THEN Value(<<FALSE, MsgFormat>>)
    ELSE LET ch == py_getitem(result, "choices") IN
    IF ch.raised THEN ch
    ELSE LET n == py_len(ch.val) IN
    IF n.raised THEN n
    ELSE IF ~(n.val > 0) THEN Value(<<FALSE, MsgFormat>>)
    ELSE LET c0 == py_first(ch.val) IN
    IF c0.raised THEN c0
    ELSE LET m == py_getitem(c0.val, "message") IN
    IF m.raised THEN m
    ELSE LET c == py_getitem(m.val, "content") IN
    IF c.raised THEN c
    ELSE Value(<<TRUE, c.val>>)

\* the elif chain with 'text' tested before 'content'
generic_parse_rest_text_first(result) ==
    LET ht == py_in("text", result) IN
    IF ht.raised THEN ht
    ELSE IF ht.val
    THEN LET x == py_getitem(result, "text") IN
         IF x.raised THEN x ELSE Value(<<TRUE, x.val>>)
    ELSE LET hc == py_in("content", result) IN
    IF hc.raised THEN hc
    ELSE IF hc.val
    THEN LET c == py_getitem(result, "content") IN
         IF c.raised THEN c ELSE Value(<<TRUE, c.val>>)
    ELSE Value(<<FALSE, MsgFormat>>)

\* network.py:253-258: the elif chain after the 'choices' test failed
generic_parse_rest(result) ==
    LET hc == py_in("content", result) IN
    IF hc.raised THEN hc
    ELSE IF hc.val
    THEN LET c == py_getitem(result, "content") IN
         IF c.raised THEN c ELSE Value(<<TRUE, c.val>>)
    ELSE LET ht == py_in("text", result) IN
    IF ht.raised THEN ht
    ELSE IF ht.val
    THEN LET x == py_getitem(result, "text") IN
         IF x.raised THEN x ELSE Value(<<TRUE, x.val>>)
    ELSE Value(<<FALSE, MsgFormat>>)

\* the first choice read as the other handlers read it, with no default
generic_parse_choice_strict(choices) ==
    LET c0 == py_first(choices) IN
    IF c0.raised THEN c0
    ELSE LET m == py_getitem(c0.val, "message") IN
    IF m.raised THEN m
    ELSE LET c == py_getitem(m.val, "content") IN
    IF c.raised THEN c
    ELSE Value(<<TRUE, c.val>>)

\* network.py:249-252: the first choice of a non-empty 'choices'
generic_parse_choice(choices) ==
    LET c0 == py_first(choices) IN
    IF c0.raised THEN c0
    ELSE LET hm == py_in("message", c0.val) IN
    IF hm.raised THEN hm
    ELSE IF hm.val
    THEN LET m == py_getitem(c0.val, "message") IN
         IF m.raised THEN m
         ELSE LET g == py_get(m.val, "content", py_str(c0.val)) IN
         IF g.raised THEN g ELSE Value(<<TRUE, g.val>>)
    ELSE Value(<<TRUE, py_str(c0.val)>>)

\* network.py:247-258
generic_parse(result) ==
    LET has == py_in("choices", result) IN
    IF has.raised THEN has
    ELSE IF ~has.val THEN generic_parse_rest(result)
    ELSE LET ch == py_getitem(result, "choices") IN
    IF ch.raised THEN ch
    ELSE LET n == py_len(ch.val) IN
    IF n.raised THEN n
    ELSE IF n.val > 0 THEN generic_parse_choice(ch.val)
    ELSE generic_parse_rest(result)

-----------------------------------------------------------------------------
(* The transport: what one requests.post call can come back with *)

\* what the server side does with one POST: post raises, or a response with a
\* status arrives whose .json() gives a value or raises
ReplyRaise(type, msg)  == [post |-> Raise(type, msg), status |-> 0, json |-> Value(JNull)]
ReplyStatus(status)    == [post |-> Value(JNull), status |-> status, json |-> Value(JNull)]
ReplyJson(status, val) == [post |-> Value(JNull), status |-> status, json |-> Value(val)]
ReplyBadJson(type)     == [post |-> Value(JNull), status |-> 200,
                           json |-> Raise(type, "Expecting value")]

\* no reply yet
NoReply == [post |-> Value(JNull), status |-> 0, json |-> Value(JNull)]

\* requests.Response.raise_for_status: raises HTTPError for 4xx and 5xx
raise_for_status(status) ==
    IF status >= 400 /\ status < 600
    THEN Raise("HTTPError", ToString(status))
    ELSE Value(JNull)

\* network.py:84-91: post, raise_for_status, json
http_json(reply) ==
    IF reply.post.raised THEN reply.post
    ELSE LET st == raise_for_status(reply.status) IN
    IF st.raised THEN st
    ELSE reply.json

-----------------------------------------------------------------------------
(* The request each handler builds and passes to requests.post *)

\* str.replace(old, new) for one-character old and new
replace(s, old, new) == [k \in 1..Len(s) |-> IF s[k] = old THEN new ELSE s[k]]

gpt_4   == <<"g","p","t","-","4">>
gpt_3_5 == <<"g","p","t","-","3",".","5">>
llama   == <<"l","l","a","m","a">>
mixtral == <<"m","i","x","t","r","a","l">>

\* a JSON number, as the fraction num/den
JNum(num, den) == [t |-> "num", v |-> <<num, den>>]

\* a str given by its characters, as a JSON value
JChars(s) == [t |-> "str", v |-> s]

\* network.py:61-64 (the same dict in 119-122, 168-171, 225-228)
headers(api_key_) ==
    ("Authorization" :> <<"Bearer ", api_key_>>)
        @@ ("Content-Type" :> <<"application/json">>)

\* a 'messages' list with a system message before the user's
messages_with_system(prompt_) ==
    JArr(<<JObj([role |-> JStr("system"), content |-> JStr("You are helpful.")]),
           JObj([role |-> JStr("user"), content |-> JStr(prompt_)])>>)

\* network.py:77-79: the 'messages' list of every handler
messages(prompt_) ==
    JArr(<<JObj([role |-> JStr("user"), content |-> JStr(prompt_)])>>)

\* network.py:66-73
openai_model_id(model) ==
    LET model_name == replace(lower(model.name), " ", "-") IN
    IF contains(gpt_4, model_name) THEN "gpt-4"
    ELSE IF contains(gpt_3_5, model_name) THEN "gpt-3.5-turbo"
    ELSE "gpt-3.5-turbo"

\* the two names tested in the other order, 'mixtral' first
groq_model_id_mixtral_first(model) ==
    LET model_name == lower(model.name) IN
    IF contains(mixtral, model_name) THEN "mixtral-8x7b-32768"
    ELSE IF contains(llama, model_name) THEN "llama3-8b-8192"
    ELSE "llama3-8b-8192"

\* network.py:173-180
groq_model_id(model) ==
    LET model_name == lower(model.name) IN
    IF contains(llama, model_name) THEN "llama3-8b-8192"
    ELSE IF contains(mixtral, model_name) THEN "mixtral-8x7b-32768"
    ELSE "llama3-8b-8192"

\* network.py:75-81
openai_data(model, prompt_) ==
    JObj([model |-> JStr(openai_model_id(model)), messages |-> messages(prompt_),
          temperature |-> JNum(7, 10)])

\* network.py:124-130
deepseek_data(model, prompt_) ==
    JObj([model |-> JStr("deepseek-chat"), messages |-> messages(prompt_),
          temperature |-> JNum(7, 10)])

\* the groq body with the 'temperature' of the openai one
groq_data_with_temperature(model, prompt_) ==
    JObj([messages |-> messages(prompt_), model |-> JStr(groq_model_id(model)),
          temperature |-> JNum(7, 10)])

\* network.py:182-187
groq_data(model, prompt_) ==
    JObj([messages |-> messages(prompt_), model |-> JStr(groq_model_id(model))])

\* network.py:230-235
generic_data(model, prompt_) ==
    JObj([model |-> JChars(model.name), messages |-> messages(prompt_)])

\* network.py:84-89: the arguments of requests.post
PostCall(url, headers_, json, timeout_) ==
    [url |-> url, headers |-> headers_, json |-> json, timeout |-> timeout_]

\* no requests.post call
NoRequest == PostCall(<<>>, <<>>, JNull, 0)

\* network.py:84-89, 132-137, 189-194, 237-242: the call the handler of the
\* detected type makes
request_by_type(api_type_, model, prompt_, api_key_, timeout_) ==
    IF api_type_ = "openai"
    THEN PostCall(model.api_url, headers(api_key_), openai_data(model, prompt_), timeout_)
    ELSE IF api_type_ = "deepseek"
    THEN PostCall(model.api_url, headers(api_key_), deepseek_data(model, prompt_), timeout_)
    ELSE IF api_type_ = "groq"
    THEN PostCall(model.api_url, headers(api_key_), groq_data(model, prompt_), timeout_)
    ELSE PostCall(model.api_url, headers(api_key_), generic_data(model, prompt_), timeout_)

-----------------------------------------------------------------------------
(* The handlers *)

\* network.py:48-103 (the request itself is built in lines 61-81)
send_request_to_openai(model, prompt_, api_key_, timeout_, reply) ==
    LET r == http_json(reply) IN
    IF r.raised THEN handle_exception(r.exc, timeout_)
    ELSE LET p == openai_parse(r.val) IN
    IF p.raised THEN handle_exception(p.exc, timeout_) ELSE p

\* network.py:106-152
send_request_to_deepseek(model, prompt_, api_key_, timeout_, reply) ==
    LET r == http_json(reply) IN
    IF r.raised THEN handle_exception(r.exc, timeout_)
    ELSE LET p == deepseek_parse(r.val) IN
    IF p.raised THEN handle_exception(p.exc, timeout_) ELSE p

\* network.py:155-209
send_request_to_groq(model, prompt_, api_key_, timeout_, reply) ==
    LET r == http_json(reply) IN
    IF r.raised THEN handle_exception(r.exc, timeout_)
    ELSE LET p == groq_parse(r.val) IN
    IF p.raised THEN handle_exception(p.exc, timeout_) ELSE p

\* network.py:212-265
send_request_to_generic(model, prompt_, api_key_, timeout_, reply) ==
    LET r == http_json(reply) IN
    IF r.raised THEN handle_exception(r.exc, timeout_)
    ELSE LET p == generic_parse(r.val) IN
    IF p.raised THEN handle_exception(p.exc, timeout_) ELSE p

\* network.py:289-297: call the handler of the detected type
send_request_by_type(api_type_, model, prompt_, api_key_, timeout_, reply) ==
    IF api_type_ = "openai"
    THEN send_request_to_openai(model, prompt_, api_key_, timeout_, reply)
    ELSE IF api_type_ = "deepseek"
    THEN send_request_to_deepseek(model, prompt_, api_key_, timeout_, reply)
    ELSE IF api_type_ = "groq"
    THEN send_request_to_groq(model, prompt_, api_key_, timeout_, reply)
    ELSE send_request_to_generic(model, prompt_, api_key_, timeout_, reply)

-----------------------------------------------------------------------------
(* The inputs of a dispatch *)

\* network.py:13
DEFAULT_TIMEOUT == 30

Message(c) == JObj([content |-> JStr(c)])
Choice(c)  == JObj([message |-> Message(c)])

\* decoded bodies a server can answer with
Bodies ==
    { JObj([choices |-> JArr(<<Choice("hi")>>)]),
      JObj([content |-> JStr("top content")]),
      JObj([text |-> JStr("top text")]),
      JObj(EmptyDict),
      JObj([choices |-> JArr(<<>>)]),
      JObj([choices |-> JArr(<<>>), content |-> JStr("top content"),
            text |-> JStr("top text")]),
      JObj([content |-> JStr("top content"), text |-> JStr("top text")]),
      JObj([choices |-> JArr(<<Choice("hi")>>), content |-> JStr("top content"),
            text |-> JStr("top text")]),
      JObj([choices |-> JArr(<<JObj([message |-> JObj(EmptyDict)])>>)]),
      JObj([choices |-> JArr(<<JObj([text |-> JStr("legacy")])>>)]),
      JObj([choices |-> JArr(<<JObj([text |-> JStr("legacy")])>>),
            content |-> JStr("top content")]),
      JObj([choices |-> JArr(<<JObj([message |-> JNull])>>)]),
      JObj([choices |-> JNull]),
      JArr(<<>>),
      JNull }

\* everything one requests.post call can come back with
Replies ==
    { ReplyRaise("ReadTimeout", "Read timed out"),
      ReplyRaise("ConnectTimeout", "Connect timed out"),
      ReplyRaise("ConnectionError", "Connection refused"),
      ReplyRaise("SSLError", "certificate verify failed"),
      ReplyRaise("RuntimeError", "boom"),
      ReplyStatus(404),
      ReplyStatus(500),
      ReplyBadJson("requests.JSONDecodeError"),
      ReplyBadJson("ValueError") }
    \cup { ReplyJson(200, b) : b \in Bodies }
    \cup { ReplyJson(300, JObj([choices |-> JArr(<<Choice("hi")>>)])) }

\* the replies every run includes: one of each class of outcome
CoreReplies ==
    { ReplyRaise("ReadTimeout", "Read timed out"),
      ReplyRaise("ConnectionError", "Connection refused"),
      ReplyRaise("RuntimeError", "boom"),
      ReplyStatus(500),
      ReplyJson(200, JObj(EmptyDict)),
      ReplyJson(200, JObj([choices |-> JArr(<<Choice("hi")>>)])) }

\* the replies of servers that answer in time or not at all: the call returns
\* a response or hits its timeout
TimelyReplies ==
    { ReplyRaise("ReadTimeout", "Read timed out"),
      ReplyJson(200, JObj([choices |-> JArr(<<Choice("hi")>>)])) }

\* the replies the servers of a run can give
ServerReplies ==
    IF server = "any" THEN Replies
    ELSE IF server = "core" THEN CoreReplies
    ELSE TimelyReplies

\* process environments: an api_id is set, set to the empty string, or unset
EnvAll ==
    [OPENAI_API_KEY |-> "sk-openai", DEEPSEEK_API_KEY |-> "sk-deepseek",
     GROQ_API_KEY |-> "gsk-groq", LOCAL_API_KEY |-> "local-secret"]
EnvSome ==
    [DEEPSEEK_API_KEY |-> "", GROQ_API_KEY |-> "gsk-groq",
     LOCAL_API_KEY |-> "local-secret"]
EnvOther ==
    [OPENAI_API_KEY |-> "sk-openai", DEEPSEEK_API_KEY |-> "sk-deepseek",
     GROQ_API_KEY |-> ""]

\* the lists a caller passes: Model objects of the catalogue, each at most
\* once (models.name is UNIQUE, db.py:48), here runs of consecutive rows
ModelLists(maxLen) ==
    { l \in UNION { [1..n -> 1..Len(Catalogue)] : n \in 0..maxLen } :
        \A a \in 1..Len(l) : a > 1 => l[a] = l[a - 1] + 1 }

Workers == 1..Len(models)

\* config.py:13-23: os.getenv(api_id, '')
get_api_key(api_id) ==
    IF api_id \in DOMAIN environ THEN environ[api_id] ELSE ""

\* the Model objects of the list are those of the catalogue
Heap == objects = [m \in { models[k] : k \in 1..Len(models) } |-> Catalogue[m]]

\* network.py:320-322: the state at the entry of send_to_all_models, nothing
\* started and nothing recorded
Entry ==
    /\ callback \in BOOLEAN
    /\ results = <<>>
    /\ threads = <<>>
    /\ lock = 0
    /\ pcMain = "start"
    /\ pc = [w \in Workers |-> "new"]
    /\ api_key = [w \in Workers |-> ""]
    /\ api_type = [w \in Workers |-> ""]
    /\ success = [w \in Workers |-> FALSE]
    /\ response = [w \in Workers |-> JNull]
    /\ posts = [w \in Workers |-> 0]
    /\ sent = [w \in Workers |-> NoRequest]
    /\ got = [w \in Workers |-> NoReply]
    /\ calls = <<>>
    /\ died = [w \in Workers |-> FALSE]
    /\ joined = 0

\* no second call of send_to_all_models is made
NoDispatch ==
    [models |-> <<>>, timeout |-> DEFAULT_TIMEOUT, results |-> <<>>, threads |-> <<>>,
     lock |-> 0, pcMain |-> "none", pc |-> <<>>, success |-> <<>>, response |-> <<>>,
     got |-> <<>>, joined |-> 0]

\* no RequestThread is created
NoThread ==
    [pc |-> "none", i |-> 0, results |-> <<>>, called |-> <<>>, inflight |-> 0,
     emitted |-> <<>>]

\* one call of send_to_all_models is all that runs
Alone == other = NoDispatch /\ gui = NoThread

Init ==
    /\ \/ /\ models \in ModelLists(MaxModels)
          /\ server = "core"
          /\ timeout = DEFAULT_TIMEOUT
          /\ environ \in {EnvAll, EnvSome}
       \/ /\ models \in ModelLists(1)
          /\ server = "any"
          /\ timeout \in {DEFAULT_TIMEOUT, 5}
          /\ environ \in {EnvAll, EnvSome, EnvOther}
    /\ Heap
    /\ prompt = "hello"
    /\ Entry
    /\ Alone

\* the api_url values of the Model objects whose classification is checked:
\* the markers in lower, upper and mixed case, several markers in one URL,
\* near misses, no marker and the empty string
Urls ==
    { <<"h","t","t","p","s",":","/","/","a","p","i",".","o","p","e","n","a",
        "i",".","c","o","m","/","v","1","/","c","h","a","t">>,
      <<"h","t","t","p","s",":","/","/","a","p","i",".","g","r","o","q",".",
        "c","o","m","/","x">>,
      <<"h","t","t","p","s",":","/","/","e","x","a","m","p","l","e",".","c",
        "o","m","/","x">>,
      <<"A","P","I",".","O","P","E","N","A","I",".","C","O","M">>,
      <<"a","p","i",".","D","e","e","p","S","e","e","k",".","c","o","m","/",
        "v","1">>,
      <<"G","r","o","q",".","C","o","m">>,
      <<"g","r","o","q",".","c","o","m","/","O","p","e","n","A","I",".","C",
        "O","M">>,
      <<"d","e","e","p","s","e","e","k",".","c","o","m","/","g","r","o","q",
        ".","c","o","m">>,
      <<"O","P","E","N","A","I",".","C","O","M",".","d","e","e","p","s","e",
        "e","k",".","c","o","m">>,
      <<"o","p","e","n","a","i",".","c","o">>,
      <<"g","r","o","q","-","c","o","m">>,
      <<>> }

\* the second URL of the specification's examples
groq_example ==
    <<"h","t","t","p","s",":","/","/","a","p","i",".","g","r","o","q",".",
      "c","o","m","/","x">>

\* a dispatch of two Model objects, the first with any of these URLs and the
\* second with the same URL or with another one
ClassifyInit ==
    /\ models = <<1, 2>>
    /\ \E u \in Urls : \E v \in {u, groq_example} :
          objects = [m \in {1, 2} |->
                        Model(m, <<"m">>, IF m = 1 THEN u ELSE v, "LOCAL_API_KEY", 1)]
    /\ server = "timely"
    /\ timeout = DEFAULT_TIMEOUT
    /\ environ = EnvAll
    /\ prompt = "hello"
    /\ Entry
    /\ Alone

\* display names of Model objects: the substrings the handlers look for in
\* upper and mixed case, with a space for the hyphen, two of them in one
\* name, and none of them
Names ==
    { <<"G","P","T","-","4">>,
      <<"M","y"," ","G","P","T"," ","4"," ","T","u","r","b","o">>,
      <<"G","P","T","-","3",".","5">>,
      <<"C","h","a","t","G","P","T">>,
      <<"L","l","a","m","a"," ","3">>,
      <<"M","i","x","t","r","a","l"," ","8","x","7","B">>,
      <<"M","i","x","t","r","a","l","-","L","L","a","M","A">>,
      <<"m","y"," ","l","m">> }

\* one api_url of each type
TypeUrls ==
    { <<"a","p","i",".","o","p","e","n","a","i",".","c","o","m">>,
      <<"a","p","i",".","d","e","e","p","s","e","e","k",".","c","o","m">>,
      <<"a","p","i",".","g","r","o","q",".","c","o","m">>,
      <<"l","o","c","a","l","h","o","s","t">> }

\* prompts: a word, and a text with spaces and newlines at both ends
Prompts == {"hello", "  Explain:\n- a\n- b \n"}

\* a dispatch of two Model objects: the first with any of these names and URLs,
\* the second the DeepSeek row of the catalogue
RequestInit ==
    /\ models = <<1, 2>>
    /\ \E n \in Names : \E u \in TypeUrls :
          objects = [m \in {1, 2} |->
                        IF m = 1 THEN Model(1, n, u, "LOCAL_API_KEY", 1)
                        ELSE Catalogue[2]]
    /\ server = "timely"
    /\ timeout = DEFAULT_TIMEOUT
    /\ environ = EnvAll
    /\ prompt \in Prompts
    /\ Entry
    /\ Alone

\* a dispatch to servers that answer in time or not at all
TimelyInit ==
    /\ models \in ModelLists(MaxModels)
    /\ server = "timely"
    /\ timeout = DEFAULT_TIMEOUT
    /\ environ \in {EnvAll, EnvSome}
    /\ Heap
    /\ prompt = "hello"
    /\ Entry
    /\ Alone

-----------------------------------------------------------------------------
(* send_to_all_models: the dispatcher *)

\* a loop that starts a thread only when the threads before it have ended
StartThreadAfterPrevious ==
    /\ pcMain = "start"
    /\ Len(threads) < Len(models)
    /\ \A v \in 1..Len(threads) : pc[v] = "done"
    /\ LET w == Len(threads) + 1 IN
       /\ pc' = [pc EXCEPT ![w] = "lookup"]
       /\ threads' = Append(threads, w)
    /\ UNCHANGED <<other, gui, objects, models, prompt, timeout, callback, environ, server, results, lock,
                   pcMain, api_key, api_type, success, response, posts, sent, got, calls,
                   died, joined>>

\* network.py:340-343: one turn of the loop that starts the threads
StartThread ==
    /\ pcMain = "start"
    /\ Len(threads) < Len(models)
    /\ LET w == Len(threads) + 1 IN
       /\ pc' = [pc EXCEPT ![w] = "lookup"]
       /\ threads' = Append(threads, w)
    /\ UNCHANGED <<other, gui, objects, models, prompt, timeout, callback, environ, server, results, lock,
                   pcMain, api_key, api_type, success, response, posts, sent, got, calls,
                   died, joined>>

\* network.py:340, 346: the start loop is exhausted, the join loop begins
StartDone ==
    /\ pcMain = "start"
    /\ Len(threads) = Len(models)
    /\ pcMain' = "join"
    /\ UNCHANGED <<other, gui, objects, models, prompt, timeout, callback, environ, server, results, threads,
                   lock, pc, api_key, api_type, success, response, posts, sent, got, calls,
                   died, joined>>

\* a join that does not wait for the thread to end
CanJoinNoWait(w) == TRUE

\* threading.Thread.join: returns once the thread has ended
CanJoin(w) == pc[w] = "done"

\* network.py:346-347: one turn of the join loop
JoinThread ==
    /\ pcMain = "join"
    /\ joined < Len(threads)
    /\ CanJoin(threads[joined + 1])
    /\ joined' = joined + 1
    /\ UNCHANGED <<other, gui, objects, models, prompt, timeout, callback, environ, server, results, threads,
                   lock, pcMain, pc, api_key, api_type, success, response, posts, sent, got,
                   calls, died>>

\* network.py:349
Return ==
    /\ pcMain = "join"
    /\ joined = Len(threads)
    /\ pcMain' = "returned"
    /\ UNCHANGED <<other, gui, objects, models, prompt, timeout, callback, environ, server, results, threads,
                   lock, pc, api_key, api_type, success, response, posts, sent, got, calls,
                   died, joined>>

-----------------------------------------------------------------------------
(* send_to_model: the worker thread of one Model *)

\* a thread that reads the loop variable  model  when it runs, instead of
\* the argument it was started with
arg_late_binding(w) == models[Len(threads)]

\* network.py:341: args=(model,), the Model object passed to thread w
arg(w) == models[w]

\* a test that takes only None for a missing key:  if api_key is None
no_key_is_none(key) == FALSE

\* network.py:283: not api_key
no_key(key) == key = ""

\* a worker that skips a Model whose is_active is 0 and ends without a result
GetKeyActiveOnly(w) ==
    /\ pc[w] = "lookup"
    /\ LET key == get_api_key(objects[arg(w)].api_id) IN
       /\ api_key' = [api_key EXCEPT ![w] = key]
       /\ IF objects[arg(w)].is_active = 0
          THEN /\ pc' = [pc EXCEPT ![w] = "done"]
               /\ UNCHANGED <<success, response>>
          ELSE IF no_key(key)
          THEN /\ success' = [success EXCEPT ![w] = FALSE]
               /\ response' = [response EXCEPT ![w] = MsgNoKey(objects[arg(w)].api_id)]
               /\ pc' = [pc EXCEPT ![w] = "acquire"]
          ELSE /\ pc' = [pc EXCEPT ![w] = "post"]
               /\ UNCHANGED <<success, response>>
    /\ UNCHANGED <<other, gui, objects, models, prompt, timeout, callback, environ, server,
                   results, threads, lock, pcMain, api_type, posts, sent, got, calls,
                   died, joined>>

\* network.py:282-284: the credential lookup and the early return
GetKey(w) ==
    /\ pc[w] = "lookup"
    /\ LET key == get_api_key(objects[arg(w)].api_id) IN
       /\ api_key' = [api_key EXCEPT ![w] = key]
       /\ IF no_key(key)
          THEN /\ success' = [success EXCEPT ![w] = FALSE]
               /\ response' = [response EXCEPT ![w] = MsgNoKey(objects[arg(w)].api_id)]
               /\ pc' = [pc EXCEPT ![w] = "acquire"]
          ELSE /\ pc' = [pc EXCEPT ![w] = "post"]
               /\ UNCHANGED <<success, response>>
    /\ UNCHANGED <<other, gui, objects, models, prompt, timeout, callback, environ, server,
                   results, threads, lock, pcMain, api_type, posts, sent, got, calls,
                   died, joined>>

\* the key of the thread started last, passed instead of the thread's own
key_arg_shared(w) == api_key[Len(threads)]

\* network.py:291-297: the api_key argument of the handler call, the local
\* of line 282
key_arg(w) == api_key[w]

\* a thread that calls the handler without waiting for the credential lookup
PostBeforeLookup(w) ==
    /\ pc[w] \in {"lookup", "post"}
    /\ LET api_type_ == detect_api_type(objects[arg(w)].api_url) IN
       /\ api_type' = [api_type EXCEPT ![w] = api_type_]
       /\ sent' = [sent EXCEPT ![w] = request_by_type(api_type_, objects[arg(w)],
                                                      prompt, key_arg(w), timeout)]
    /\ posts' = [posts EXCEPT ![w] = @ + 1]
    /\ pc' = [pc EXCEPT ![w] = "inflight"]
    /\ UNCHANGED <<other, gui, objects, models, prompt, timeout, callback, environ, server,
                   results, threads, lock, pcMain, api_key, success, response,
                   got, calls, died, joined>>

\* a handler that stores the lower-cased name back into the Model object
PostLowersName(w) ==
    /\ pc[w] = "post"
    /\ LET api_type_ == detect_api_type(objects[arg(w)].api_url) IN
       /\ api_type' = [api_type EXCEPT ![w] = api_type_]
       /\ sent' = [sent EXCEPT ![w] = request_by_type(api_type_, objects[arg(w)],
                                                      prompt, key_arg(w), timeout)]
    /\ objects' = [objects EXCEPT ![arg(w)].name = lower(@)]
    /\ posts' = [posts EXCEPT ![w] = @ + 1]
    /\ pc' = [pc EXCEPT ![w] = "inflight"]
    /\ UNCHANGED <<other, gui, models, prompt, timeout, callback, environ, server,
                   results, threads, lock, pcMain, api_key, success, response,
                   got, calls, died, joined>>

\* network.py:287 and 84-89: the URL is classified and the handler of that type
\* builds its request and calls requests.post
Post(w) ==
    /\ pc[w] = "post"
    /\ LET api_type_ == detect_api_type(objects[arg(w)].api_url) IN
       /\ api_type' = [api_type EXCEPT ![w] = api_type_]
       /\ sent' = [sent EXCEPT ![w] = request_by_type(api_type_, objects[arg(w)],
                                                      prompt, key_arg(w), timeout)]
    /\ posts' = [posts EXCEPT ![w] = @ + 1]
    /\ pc' = [pc EXCEPT ![w] = "inflight"]
    /\ UNCHANGED <<other, gui, objects, models, prompt, timeout, callback, environ, server,
                   results, threads, lock, pcMain, api_key, success, response,
                   got, calls, died, joined>>

\* a handler that calls requests.post once more after a failed attempt
ReplyRetry(w) ==
    /\ pc[w] = "inflight"
    /\ \E reply \in ServerReplies :
        LET out == send_request_by_type(api_type[w], objects[arg(w)], prompt,
                                        api_key[w], timeout, reply) IN
        /\ got' = [got EXCEPT ![w] = reply]
        /\ IF out.raised
           THEN /\ died' = [died EXCEPT ![w] = TRUE]
                /\ pc' = [pc EXCEPT ![w] = "done"]
                /\ UNCHANGED <<success, response>>
           ELSE /\ success' = [success EXCEPT ![w] = out.val[1]]
                /\ response' = [response EXCEPT ![w] = out.val[2]]
                /\ pc' = [pc EXCEPT ![w] =
                             IF ~out.val[1] /\ posts[w] < 2 THEN "post" ELSE "acquire"]
                /\ UNCHANGED died
    /\ UNCHANGED <<other, gui, objects, models, prompt, timeout, callback, environ, server,
                   results, threads, lock, pcMain, api_key, api_type, posts, sent,
                   calls, joined>>

\* network.py:84-103, 289-297 and 326: requests.post comes back and the handler
\* returns (success, response) to send_to_model; an exception that leaves the
\* handler leaves send_to_model too and ends the thread
Reply(w) ==
    /\ pc[w] = "inflight"
    /\ \E reply \in ServerReplies :
        LET out == send_request_by_type(api_type[w], objects[arg(w)], prompt,
                                        api_key[w], timeout, reply) IN
        /\ got' = [got EXCEPT ![w] = reply]
        /\ IF out.raised
           THEN /\ died' = [died EXCEPT ![w] = TRUE]
                /\ pc' = [pc EXCEPT ![w] = "done"]
                /\ UNCHANGED <<success, response>>
           ELSE /\ success' = [success EXCEPT ![w] = out.val[1]]
                /\ response' = [response EXCEPT ![w] = out.val[2]]
                /\ pc' = [pc EXCEPT ![w] = "acquire"]
                /\ UNCHANGED died
    /\ UNCHANGED <<other, gui, objects, models, prompt, timeout, callback, environ, server,
                   results, threads, lock, pcMain, api_key, api_type, posts, sent,
                   calls, joined>>

\* an acquire that does not block
CanAcquireNoLock(w) == TRUE

\* an acquire that also waits until no HTTP call is pending
CanAcquireAfterCalls(w) ==
    /\ lock = 0
    /\ \A v \in Workers : pc[v] \notin {"lookup", "post", "inflight"}

\* threading.Lock.acquire: blocks while another thread holds the lock
CanAcquire(w) == lock = 0

\* network.py:328: with lock
Acquire(w) ==
    /\ pc[w] = "acquire"
    /\ CanAcquire(w)
    /\ lock' = w
    /\ pc' = [pc EXCEPT ![w] = "append"]
    /\ UNCHANGED <<other, gui, objects, models, prompt, timeout, callback, environ, server, results, threads,
                   pcMain, api_key, api_type, success, response, posts, sent, got, calls,
                   died, joined>>

\* success and response shared by the threads instead of local to each: the
\* entry takes those of the thread started last
ResultEntryShared(w) ==
    [model |-> arg(w), success |-> success[Len(threads)],
     response |-> response[Len(threads)]]

\* network.py:329-333
ResultEntry(w) ==
    [model |-> arg(w), success |-> success[w], response |-> response[w]]

\* the result list replaced by a list of the new entry instead of appended to
AppendResultReplace(w) ==
    /\ pc[w] = "append"
    /\ results' = <<ResultEntry(w)>>
    /\ IF callback
       THEN /\ pc' = [pc EXCEPT ![w] = "callback"]
            /\ UNCHANGED lock
       ELSE /\ pc' = [pc EXCEPT ![w] = "done"]
            /\ lock' = 0
    /\ UNCHANGED <<other, gui, objects, models, prompt, timeout, callback, environ, server,
                   threads, pcMain, api_key, api_type, success, response, posts, sent,
                   got, calls, died, joined>>

\* the new entry inserted at the place of its Model in the input list instead
\* of appended
AppendResultInInputOrder(w) ==
    /\ pc[w] = "append"
    /\ LET e == ResultEntry(w)
           before == SelectSeq(results, LAMBDA r : r.model < e.model)
           after  == SelectSeq(results, LAMBDA r : r.model > e.model)
       IN results' = before \o <<e>> \o after
    /\ IF callback
       THEN /\ pc' = [pc EXCEPT ![w] = "callback"]
            /\ UNCHANGED lock
       ELSE /\ pc' = [pc EXCEPT ![w] = "done"]
            /\ lock' = 0
    /\ UNCHANGED <<other, gui, objects, models, prompt, timeout, callback, environ, server,
                   threads, pcMain, api_key, api_type, success, response, posts, sent,
                   got, calls, died, joined>>

\* an append after which the lock is kept when there is no callback
AppendResultKeepsLock(w) ==
    /\ pc[w] = "append"
    /\ results' = Append(results, ResultEntry(w))
    /\ pc' = [pc EXCEPT ![w] = IF callback THEN "callback" ELSE "done"]
    /\ UNCHANGED <<other, gui, objects, models, prompt, timeout, callback, environ, server,
                   threads, lock, pcMain, api_key, api_type, success, response, posts,
                   sent, got, calls, died, joined>>

\* network.py:329-336: the result is appended; without a callback the with
\* block ends here and the lock is released
AppendResult(w) ==
    /\ pc[w] = "append"
    /\ results' = Append(results, ResultEntry(w))
    /\ IF callback
       THEN /\ pc' = [pc EXCEPT ![w] = "callback"]
            /\ UNCHANGED lock
       ELSE /\ pc' = [pc EXCEPT ![w] = "done"]
            /\ lock' = 0
    /\ UNCHANGED <<other, gui, objects, models, prompt, timeout, callback, environ, server,
                   threads, pcMain, api_key, api_type, success, response, posts, sent,
                   got, calls, died, joined>>

\* a callback called with the loop variable  model  instead of the thread's own
CallbackArgsLate(w) == <<models[Len(threads)], success[w], response[w]>>

\* network.py:337: the arguments of the callback
CallbackArgs(w) == <<arg(w), success[w], response[w]>>

\* a callback called between a bare acquire() and release(): a raise skips
\* the release
CallbackKeepsLockOnRaise(w) ==
    /\ pc[w] = "callback"
    /\ \E raises \in BOOLEAN :
        /\ calls' = Append(calls, [args |-> CallbackArgs(w), holder |-> lock])
        /\ died' = [died EXCEPT ![w] = raises]
        /\ lock' = IF raises THEN lock ELSE 0
    /\ pc' = [pc EXCEPT ![w] = "done"]
    /\ UNCHANGED <<other, gui, objects, models, prompt, timeout, callback, environ, server,
                   results, threads, pcMain, api_key, api_type, success, response,
                   posts, sent, got, joined>>

\* network.py:328, 337: the callback runs and returns or raises; either way the
\* with block releases the lock, and a raise ends the thread
Callback(w) ==
    /\ pc[w] = "callback"
    /\ \E raises \in BOOLEAN :
        /\ calls' = Append(calls, [args |-> CallbackArgs(w), holder |-> lock])
        /\ died' = [died EXCEPT ![w] = raises]
    /\ lock' = 0
    /\ pc' = [pc EXCEPT ![w] = "done"]
    /\ UNCHANGED <<other, gui, objects, models, prompt, timeout, callback, environ, server,
                   results, threads, pcMain, api_key, api_type, success, response,
                   posts, sent, got, joined>>

Next ==
    \/ StartThread
    \/ StartDone
    \/ JoinThread
    \/ Return
    \/ \E w \in Workers : GetKey(w)
    \/ \E w \in Workers : Post(w)
    \/ \E w \in Workers : Reply(w)
    \/ \E w \in Workers : Acquire(w)
    \/ \E w \in Workers : AppendResult(w)
    \/ \E w \in Workers : Callback(w)

Spec == Init /\ [][Next]_vars

\* the dispatch to servers that answer in time or not at all (the per-call
\* timeout ends a call that hangs), with callbacks that end, under a scheduler
\* that always runs some thread that can take a step
FairSpec == TimelyInit /\ [][Next]_vars /\ WF_vars(Next)

\* dispatches that apply detect_api_type to the URLs of Urls
ClassifySpec == ClassifyInit /\ [][Next]_vars

\* dispatches whose handlers build requests from the names of Names
RequestSpec == RequestInit /\ [][Next]_vars

-----------------------------------------------------------------------------
(* A second call of send_to_all_models, running concurrently with the first *)
(* from another caller thread.  Its arguments and its locals (results,      *)
(* threads, lock: network.py:320-322) are the fields of  other ; the        *)
(* process state (the Model objects, the environment, the servers) is the   *)
(* one the first call reads.  It is called without a callback.              *)

\* network.py:300-322: the frame of a call at its entry
Frame(models_, timeout_) ==
    [models |-> models_, timeout |-> timeout_, results |-> <<>>, threads |-> <<>>,
     lock |-> 0, pcMain |-> "start",
     pc |-> [w \in 1..Len(models_) |-> "new"],
     success |-> [w \in 1..Len(models_) |-> FALSE],
     response |-> [w \in 1..Len(models_) |-> JNull],
     got |-> [w \in 1..Len(models_) |-> NoReply],
     joined |-> 0]

OtherWorkers == 1..Len(other.models)

\* network.py:324: the Model the thread was given
OtherArg(w) == other.models[w]

\* network.py:340-343
OtherStartThread ==
    /\ other.pcMain = "start"
    /\ Len(other.threads) < Len(other.models)
    /\ LET w == Len(other.threads) + 1 IN
       other' = [other EXCEPT !.pc[w] = "work", !.threads = Append(@, w)]
    /\ UNCHANGED <<gui, dispatch>>

\* network.py:340, 346
OtherStartDone ==
    /\ other.pcMain = "start"
    /\ Len(other.threads) = Len(other.models)
    /\ other' = [other EXCEPT !.pcMain = "join"]
    /\ UNCHANGED <<gui, dispatch>>

\* network.py:268-297: send_request_to_model for the call's own arguments
OtherOutcome(w, reply) ==
    LET model == objects[OtherArg(w)]
        key == get_api_key(model.api_id)
    IN  IF no_key(key)
        THEN Value(<<FALSE, MsgNoKey(model.api_id)>>)
        ELSE send_request_by_type(detect_api_type(model.api_url), model, prompt,
                                  key, other.timeout, reply)

\* network.py:326: the thread's call of send_request_to_model, from the
\* credential lookup to the handler's return
OtherSendRequest(w) ==
    /\ w \in OtherWorkers
    /\ other.pc[w] = "work"
    /\ \E r \in ServerReplies :
        LET reply == IF no_key(get_api_key(objects[OtherArg(w)].api_id))
                     THEN NoReply ELSE r
            out == OtherOutcome(w, reply)
        IN  other' = IF out.raised
                     THEN [other EXCEPT !.got[w] = reply, !.pc[w] = "done"]
                     ELSE [other EXCEPT !.got[w] = reply,
                                        !.success[w] = out.val[1],
                                        !.response[w] = out.val[2],
                                        !.pc[w] = "acquire"]
    /\ UNCHANGED <<gui, dispatch>>

\* network.py:328: with lock, the lock being the one of this call
OtherAcquire(w) ==
    /\ w \in OtherWorkers
    /\ other.pc[w] = "acquire"
    /\ other.lock = 0
    /\ other' = [other EXCEPT !.lock = w, !.pc[w] = "append"]
    /\ UNCHANGED <<gui, dispatch>>

\* network.py:329-333
OtherResultEntry(w) ==
    [model |-> OtherArg(w), success |-> other.success[w],
     response |-> other.response[w]]

\* a result list that is one module-level list: the thread of the second
\* call appends to the list of the first
OtherAppendResultShared(w) ==
    /\ w \in OtherWorkers
    /\ other.pc[w] = "append"
    /\ results' = Append(results, OtherResultEntry(w))
    /\ other' = [other EXCEPT !.lock = 0, !.pc[w] = "done"]
    /\ UNCHANGED <<gui, objects, models, prompt, timeout, callback, environ, server,
                   threads, lock, pcMain, pc, api_key, api_type, success, response,
                   posts, sent, got, calls, died, joined>>

\* network.py:328-337: the append to the call's own list; callback is None,
\* and the with block ends
OtherAppendResult(w) ==
    /\ w \in OtherWorkers
    /\ other.pc[w] = "append"
    /\ other' = [other EXCEPT !.results = Append(@, OtherResultEntry(w)),
                              !.lock = 0, !.pc[w] = "done"]
    /\ UNCHANGED <<gui, dispatch>>

\* network.py:346-347
OtherJoinThread ==
    /\ other.pcMain = "join"
    /\ other.joined < Len(other.threads)
    /\ other.pc[other.threads[other.joined + 1]] = "done"
    /\ other' = [other EXCEPT !.joined = @ + 1]
    /\ UNCHANGED <<gui, dispatch>>

\* network.py:349
OtherReturn ==
    /\ other.pcMain = "join"
    /\ other.joined = Len(other.threads)
    /\ other' = [other EXCEPT !.pcMain = "returned"]
    /\ UNCHANGED <<gui, dispatch>>

\* two calls over the same Model objects: the first of two Models with the
\* default timeout, the second of one or both of them, in the other order
\* and with a timeout of its own
ConcurrentInit ==
    /\ models = <<1, 2>>
    /\ Heap
    /\ server = "timely"
    /\ timeout = DEFAULT_TIMEOUT
    /\ environ = EnvAll
    /\ prompt = "hello"
    /\ Entry
    /\ other \in {Frame(<<2>>, 5), Frame(<<2, 1>>, 5)}
    /\ gui = NoThread

ConcurrentNext ==
    \/ Next
    \/ OtherStartThread
    \/ OtherStartDone
    \/ \E w \in OtherWorkers : OtherSendRequest(w)
    \/ \E w \in OtherWorkers : OtherAcquire(w)
    \/ \E w \in OtherWorkers : OtherAppendResult(w)
    \/ OtherJoinThread
    \/ OtherReturn

ConcurrentSpec == ConcurrentInit /\ [][ConcurrentNext]_vars

-----------------------------------------------------------------------------
(* main.py:169-190: RequestThread, the worker thread of the GUI.  It is      *)
(* given the list of Models and the prompt of the dispatch and meets the    *)
(* same transport outcomes: its call for the i-th Model gets what the       *)
(* requests.post call of the dispatch's i-th worker got.                    *)

\* main.py:173-180: the thread constructed and started, run() at the top of
\* its loop with  results = []
RunEntry ==
    [pc |-> "loop", i |-> 1, results |-> <<>>, called |-> <<>>, inflight |-> 0,
     emitted |-> <<>>]

\* main.py:184: send_request_to_model(model, self.prompt), which leaves the
\* timeout parameter at its default (network.py:268)
RunOutcome(i) ==
    LET model == objects[models[i]]
        key == get_api_key(model.api_id)
    IN  IF no_key(key)
        THEN Value(<<FALSE, MsgNoKey(model.api_id)>>)
        ELSE send_request_by_type(detect_api_type(model.api_url), model, prompt,
                                  key, DEFAULT_TIMEOUT, got[i])

\* the transport outcome of the i-th endpoint is known: the dispatch's worker
\* for it is back from send_request_to_model
OutcomeKnown(i) == pc[i] \in {"acquire", "append", "callback", "done"}

\* main.py:181-184: the loop takes the next Model and calls
\* send_request_to_model
RequestThreadCall ==
    /\ gui.pc = "loop"
    /\ gui.i <= Len(models)
    /\ gui' = [gui EXCEPT !.pc = "call", !.inflight = @ + 1,
                          !.called = Append(@, models[gui.i])]
    /\ UNCHANGED <<other, dispatch>>

\* main.py:185-189
RunEntryOf(i, out) == [model |-> models[i], success |-> out[1], response |-> out[2]]

\* a loop that puts each new result at the head of the list
RequestThreadResultAtHead ==
    /\ gui.pc = "call"
    /\ OutcomeKnown(gui.i)
    /\ LET out == RunOutcome(gui.i) IN
       gui' = IF out.raised
              THEN [gui EXCEPT !.pc = "dead", !.inflight = @ - 1]
              ELSE [gui EXCEPT !.pc = "loop", !.inflight = @ - 1, !.i = @ + 1,
                               !.results = <<RunEntryOf(gui.i, out.val)>> \o @]
    /\ UNCHANGED <<other, dispatch>>

\* main.py:184-189: the call returns and its result is appended; an
\* exception out of the call would end run() without the signal
RequestThreadResult ==
    /\ gui.pc = "call"
    /\ OutcomeKnown(gui.i)
    /\ LET out == RunOutcome(gui.i) IN
       gui' = IF out.raised
              THEN [gui EXCEPT !.pc = "dead", !.inflight = @ - 1]
              ELSE [gui EXCEPT !.pc = "loop", !.inflight = @ - 1, !.i = @ + 1,
                               !.results = Append(@, RunEntryOf(gui.i, out.val))]
    /\ UNCHANGED <<other, dispatch>>

\* main.py:190: self.finished.emit(results), after the loop
RequestThreadEmit ==
    /\ gui.pc = "loop"
    /\ gui.i > Len(models)
    /\ gui' = [gui EXCEPT !.pc = "finished", !.emitted = Append(@, gui.results)]
    /\ UNCHANGED <<other, dispatch>>

\* a dispatch and a RequestThread over the same list and prompt
GuiInit ==
    /\ models \in ModelLists(MaxModels)
    /\ Heap
    /\ server = "timely"
    /\ timeout \in {DEFAULT_TIMEOUT, 5}
    /\ environ \in {EnvAll, EnvSome}
    /\ prompt = "hello"
    /\ Entry
    /\ other = NoDispatch
    /\ gui = RunEntry

GuiNext ==
    \/ Next
    \/ RequestThreadCall
    \/ RequestThreadResult
    \/ RequestThreadEmit

GuiSpec == GuiInit /\ [][GuiNext]_vars

-----------------------------------------------------------------------------
(* Properties *)

InputModels  == { models[k] : k \in 1..Len(models) }
ResultModels == { results[k].model : k \in 1..Len(results) }
EntriesOf(m) == { k \in 1..Len(results) : results[k].model = m }
CallsOf(m)   == { k \in 1..Len(calls) : calls[k].args[1] = m }
Returned     == pcMain = "returned"

\* the api_id of worker w resolves to nothing: unset, or set to ""
KeyMissing(w) == get_api_key(objects[arg(w)].api_id) = ""

\* C1: when send_to_all_models returns, the list it returns has exactly one
\* entry per input Model (N entries for N models, none for the empty list) and
\* the Models its entries refer to are exactly the input Models.
C1_OneResultPerModel ==
    Returned =>
        /\ Len(results) = Len(models)
        /\ ResultModels = InputModels

\* a dispatch of two models returned, one failed and one succeeded, the
\* results in the reverse of the input order
C1_Witness ==
    /\ Returned
    /\ Len(models) = 2
    /\ results[1].model = models[2]
    /\ results[1].success
    /\ ~results[2].success

\* C2: a worker never throws out of send_request_to_model: whatever the
\* credential lookup, the transport and the parser do, a worker that has ended
\* has recorded exactly one (success, response) entry for its own Model, and
\* a thread ends by an exception only when its callback raised.
C2_WorkerNeverThrows ==
    \A w \in Workers :
        /\ died[w] => \E k \in 1..Len(calls) : calls[k].holder = w
        /\ pc[w] = "done" =>
              /\ Cardinality(EntriesOf(arg(w))) = 1
              /\ \A k \in EntriesOf(arg(w)) : results[k].success \in BOOLEAN

\* a worker whose requests.post raised an exception that is no
\* RequestException has ended, with its failure recorded
C2_Witness ==
    \E w \in Workers :
        /\ pc[w] = "done"
        /\ got[w] = ReplyRaise("RuntimeError", "boom")
        /\ ~died[w]
        /\ \E k \in EntriesOf(arg(w)) : ~results[k].success

\* C3: a worker whose credential identifier resolves to nothing (unset, or the
\* empty string) issues no HTTP call, and its result is a failure whose message
\* contains the identifier.
C3_MissingCredential ==
    \A w \in Workers :
        KeyMissing(w) =>
            /\ posts[w] = 0
            /\ got[w] = NoReply
            /\ pc[w] = "done" => EntriesOf(arg(w)) # {}
            /\ \A k \in EntriesOf(arg(w)) :
                  /\ ~results[k].success
                  /\ results[k].response.t = "str"
                  /\ \E p \in 1..Len(results[k].response.v) :
                        results[k].response.v[p] = objects[arg(w)].api_id

\* a dispatch returned in which one api_id was unset and another was set to ""
C3_Witness ==
    /\ Returned
    /\ \E w \in Workers : objects[arg(w)].api_id \notin DOMAIN environ
    /\ \E w \in Workers : /\ objects[arg(w)].api_id \in DOMAIN environ
                          /\ environ[objects[arg(w)].api_id] = ""
    /\ \A w \in Workers : KeyMissing(w) /\ EntriesOf(arg(w)) # {}

\* C4: send_to_all_models is a full join barrier: when it has returned, every
\* worker has ended, with its HTTP call over, its result appended, its callback
\* (if any) invoked and the lock released.
C4_JoinBarrier ==
    Returned =>
        /\ lock = 0
        /\ \A w \in Workers :
              /\ pc[w] = "done"
              /\ EntriesOf(arg(w)) # {}
              /\ callback => CallsOf(arg(w)) # {}
              /\ posts[w] > 0 => got[w] # NoReply

\* a dispatch with a callback returned after two workers whose HTTP calls both
\* came back, the second worker having recorded its result first
C4_Witness ==
    /\ Returned
    /\ callback
    /\ Len(models) = 2
    /\ \A w \in Workers : got[w] # NoReply
    /\ calls[1].holder = 2

\* what the pipeline of worker w yields from its own Model, its own credential
\* and the reply its own POST got
OwnOutcome(w) ==
    IF KeyMissing(w)
    THEN <<FALSE, MsgNoKey(objects[arg(w)].api_id)>>
    ELSE send_request_by_type(api_type[w], objects[arg(w)], prompt, api_key[w],
                              timeout, got[w]).val

\* C5: failure isolation.  Whatever the other workers ended with, the steps
\* of a worker's own pipeline are never blocked, the entry recorded for a
\* worker is the outcome of its own pipeline (its own credential and the reply
\* to its own POST), and at return every worker has exactly one entry.
C5_FailureIsolation ==
    \A b \in Workers :
        /\ pc[b] \in {"lookup", "post", "inflight"} =>
              ENABLED (GetKey(b) \/ Post(b) \/ Reply(b))
        /\ \A k \in EntriesOf(arg(b)) :
              <<results[k].success, results[k].response>> = OwnOutcome(b)
        /\ Returned => Cardinality(EntriesOf(arg(b))) = 1

\* worker 1 failed with an exception that is no RequestException and recorded
\* it first, then worker 2 recorded a success, and the dispatch returned
C5_Witness ==
    /\ Returned
    /\ Len(models) = 2
    /\ got[1] = ReplyRaise("RuntimeError", "boom")
    /\ results[1].model = arg(1)
    /\ ~results[1].success
    /\ results[2].model = arg(2)
    /\ results[2].success

InSection(w) == pc[w] \in {"append", "callback"}

\* C6: mutual exclusion of aggregation.  At most one worker is between its
\* acquire and its release, that worker holds the lock, and the appends and
\* callbacks of two workers never interleave: a callback is always for the
\* entry appended last, and the calls are in the order of the entries.
C6_MutualExclusion ==
    /\ Cardinality({ w \in Workers : InSection(w) }) <= 1
    /\ \A w \in Workers : InSection(w) => lock = w
    /\ lock # 0 => lock \in Workers /\ InSection(lock)
    /\ callback =>
          /\ Len(calls) <= Len(results)
          /\ Len(results) <= Len(calls) + 1
          /\ \A k \in 1..Len(calls) : calls[k].args[1] = results[k].model
          /\ \A w \in Workers :
                pc[w] = "callback" =>
                   /\ Len(results) = Len(calls) + 1
                   /\ results[Len(results)].model = arg(w)

\* one worker is in its callback, holding the lock, while another waits for it
C6_Witness ==
    \E a, b \in Workers :
        /\ pc[a] = "callback"
        /\ pc[b] = "acquire"
        /\ lock = a

\* C7: a supplied callback is invoked exactly once per input Model, with that
\* Model and the success flag and text of its entry, by the worker that holds
\* the lock, after the entry was appended and before the dispatch returns;
\* without a callback nothing is invoked.
C7_CallbackOncePerModel ==
    /\ ~callback => calls = <<>>
    /\ \A k \in 1..Len(calls) :
          /\ calls[k].holder \in Workers
          /\ calls[k].args[1] = arg(calls[k].holder)
          /\ Cardinality(CallsOf(calls[k].args[1])) = 1
          /\ k <= Len(results)
          /\ results[k] = [model |-> calls[k].args[1],
                           success |-> calls[k].args[2],
                           response |-> calls[k].args[3]]
    /\ (Returned /\ callback) =>
          /\ Len(calls) = Len(models)
          /\ { calls[k].args[1] : k \in 1..Len(calls) } = InputModels

\* a dispatch with a callback returned after two invocations, one with a
\* failure and one with a success
C7_Witness ==
    /\ Returned
    /\ callback
    /\ Len(calls) = 2
    /\ calls[1].args[2]
    /\ ~calls[2].args[2]

\* every entry refers to an input Model and no Model has two entries
C8_EntriesDistinct ==
    /\ \A k \in 1..Len(results) : results[k].model \in InputModels
    /\ \A k, n \in 1..Len(results) : k # n => results[k].model # results[n].model

\* C8: in every state of a dispatch, the middle of it included, each entry of
\* the result list refers to an input Model and no input Model has more than
\* one entry, and an entry once appended is never changed or removed.
C8_ResultsStable ==
    /\ []C8_EntriesDistinct
    /\ [][/\ Len(results') >= Len(results)
          /\ SubSeq(results', 1, Len(results)) = results]_vars

\* the middle of a dispatch as a callback sees it: the second entry is in, its
\* worker is in the callback, and the dispatcher has not returned
C8_Witness ==
    /\ ~Returned
    /\ Len(results) = 2
    /\ \E w \in Workers : pc[w] = "callback"

\* worker w has the (success, response) of its pipeline
HasOutcome(w) == pc[w] \in {"acquire", "append", "callback", "done"}

\* the POST of worker w came back with a 2xx status and a body that decoded
Decoded(w) ==
    /\ got[w] # NoReply
    /\ ~got[w].post.raised
    /\ got[w].status >= 200 /\ got[w].status <= 299
    /\ ~got[w].json.raised

Body(w) == got[w].json.val

HasField(b, f) == b.t = "obj" /\ f \in DOMAIN b.v

\* 'choices' is a non-empty list
NonEmptyChoices(b) ==
    /\ HasField(b, "choices")
    /\ b.v["choices"].t = "arr"
    /\ Len(b.v["choices"].v) > 0

\* choices[0].message.content is present
HasChoiceContent(b) ==
    /\ NonEmptyChoices(b)
    /\ HasField(b.v["choices"].v[1], "message")
    /\ HasField(b.v["choices"].v[1].v["message"], "content")

ChoiceContent(b) == b.v["choices"].v[1].v["message"].v["content"]

\* a JSON object whose 'choices', if present, is a list of objects whose
\* 'message', if present, is an object
ChatShaped(b) ==
    /\ b.t = "obj"
    /\ HasField(b, "choices") =>
          /\ b.v["choices"].t = "arr"
          /\ \A k \in 1..Len(b.v["choices"].v) :
                /\ b.v["choices"].v[k].t = "obj"
                /\ HasField(b.v["choices"].v[k], "message") =>
                      b.v["choices"].v[k].v["message"].t = "obj"

\* the fallback chain as the specification states it
SpecChain(b) ==
    IF HasChoiceContent(b) THEN <<TRUE, ChoiceContent(b)>>
    ELSE IF HasField(b, "content") THEN <<TRUE, b.v["content"]>>
    ELSE IF HasField(b, "text") THEN <<TRUE, b.v["text"]>>
    ELSE <<FALSE, MsgFormat>>

TopLevelChain(b) ==
    IF HasField(b, "content") THEN <<TRUE, b.v["content"]>>
    ELSE IF HasField(b, "text") THEN <<TRUE, b.v["text"]>>
    ELSE <<FALSE, MsgFormat>>

NoChainField(b) ==
    /\ ~NonEmptyChoices(b)
    /\ ~HasField(b, "content")
    /\ ~HasField(b, "text")

\* C10 as stated: when the HTTP call succeeds with a 2xx status and the decoded
\* body has none of the chain's fields, the result is a failure with the fixed
\* format message, which is none of the timeout, network and unknown-exception
\* messages.
C10_NoFieldGivesFormatMessage ==
    \A w \in Workers :
        (HasOutcome(w) /\ Decoded(w) /\ NoChainField(Body(w))) =>
            /\ ~success[w]
            /\ response[w] = MsgFormat
            /\ response[w].v[1] \notin {"Request timeout (", "Network error: ",
                                        "Unexpected error: "}

\* requests.post of worker w raised a requests.exceptions.Timeout
TimedOut(w) == got[w].post.raised /\ got[w].post.exc[1] \in TimeoutTypes

\* C11: a worker whose HTTP call exceeded the timeout has success False and a
\* message that contains the timeout value passed to the dispatch (the value
\* its requests.post call was given), and every entry recorded for a sibling
\* is what the sibling's own credential and own reply give, the same as
\* without that timeout.
C11_TimeoutIsolated ==
    \A w \in Workers :
        (HasOutcome(w) /\ TimedOut(w)) =>
            /\ ~success[w]
            /\ sent[w].timeout = timeout
            /\ response[w].t = "str"
            /\ \E p \in 1..Len(response[w].v) : response[w].v[p] = ToString(timeout)
            /\ \A k \in EntriesOf(arg(w)) :
                  <<results[k].success, results[k].response>>
                      = <<FALSE, response[w]>>
            /\ \A b \in Workers \ {w} :
                  \A k \in EntriesOf(arg(b)) :
                      <<results[k].success, results[k].response>> = OwnOutcome(b)

\* a dispatch returned in which worker 1 timed out and recorded it first and
\* worker 2 recorded the success of its own reply after it
C11_Witness ==
    /\ Returned
    /\ Len(models) = 2
    /\ TimedOut(1)
    /\ results[1].model = arg(1)
    /\ ~results[1].success
    /\ results[2].model = arg(2)
    /\ results[2].success
    /\ results[2].response = JStr("hi")

\* the POST of worker w was issued and its handler has returned
Handled(w) == posts[w] > 0 /\ HasOutcome(w)

\* requests.post of worker w raised an exception of one of the types
PostRaised(w, types) == got[w].post.raised /\ got[w].post.exc[1] \in types

\* requests.post of worker w returned a response with this status
StatusIn(w, lo, hi) ==
    /\ ~got[w].post.raised
    /\ got[w].status >= lo
    /\ got[w].status <= hi

\* the class of failure the message of a failed worker names
OutcomeClass(w) ==
    IF success[w] THEN "Success"
    ELSE IF response[w] = MsgFormat THEN "MalformedResponse"
    ELSE IF response[w].v[1] = "Request timeout (" THEN "Timeout"
    ELSE IF response[w].v[1] = "Network error: " THEN "NetworkError"
    ELSE IF response[w].v[1] = "Unexpected error: " THEN "UnknownException"
    ELSE "Other"

\* C12 as stated: each failure class has its own failed outcome: a timeout
\* gives Timeout, a connection or TLS failure gives NetworkError, a non-2xx
\* status gives a failure that is not the NetworkError one, any other
\* exception gives UnknownException, and a timeout is never a NetworkError.
C12_EachClassOwnOutcome ==
    \A w \in Workers :
        Handled(w) =>
            /\ TimedOut(w) => OutcomeClass(w) = "Timeout"
            /\ PostRaised(w, {"ConnectionError", "SSLError"}) =>
                  OutcomeClass(w) = "NetworkError"
            /\ (StatusIn(w, 100, 199) \/ StatusIn(w, 300, 599)) =>
                  /\ ~success[w]
                  /\ OutcomeClass(w) \notin {"Timeout", "NetworkError",
                                             "UnknownException", "MalformedResponse"}
            /\ PostRaised(w, ExceptionTypes \ RequestExceptionTypes) =>
                  OutcomeClass(w) = "UnknownException"

\* C12 amended: a timeout gives the timeout message and never the network
\* one; every other RequestException gives the network-error message, a
\* connection or TLS failure and the HTTPError of a 4xx or 5xx status alike
\* (the status is told only by the text of the exception); a status below 400
\* raises nothing and the body is parsed as for a 200; any other exception
\* gives the unexpected-error message.  All of the failures have success False.
C12_FailureClasses ==
    \A w \in Workers :
        Handled(w) =>
            /\ TimedOut(w) =>
                  /\ OutcomeClass(w) = "Timeout"
                  /\ response[w] = MsgTimeout(timeout)
            /\ PostRaised(w, {"ConnectionError", "SSLError"}) =>
                  /\ OutcomeClass(w) = "NetworkError"
                  /\ response[w].v[2] = got[w].post.exc[2]
            /\ StatusIn(w, 400, 599) =>
                  /\ OutcomeClass(w) = "NetworkError"
                  /\ response[w].v[2] = ToString(got[w].status)
            /\ StatusIn(w, 100, 399) =>
                  <<success[w], response[w]>> =
                      send_request_by_type(api_type[w], objects[arg(w)], prompt,
                                           api_key[w], timeout,
                                           [got[w] EXCEPT !.status = 200]).val
            /\ PostRaised(w, ExceptionTypes \ RequestExceptionTypes) =>
                  /\ OutcomeClass(w) = "UnknownException"
                  /\ response[w].v[2] = got[w].post.exc[2]

\* in one dispatch, worker 1 got a 500 and has the network-error message with
\* the status, and worker 2 timed out and has the timeout message
C12_Witness ==
    /\ Len(models) = 2
    /\ Handled(1)
    /\ got[1] = ReplyStatus(500)
    /\ response[1] = [t |-> "str", v |-> <<"Network error: ", "500">>]
    /\ Handled(2)
    /\ TimedOut(2)
    /\ response[2] = MsgTimeout(DEFAULT_TIMEOUT)

\* C13: no retry.  In one dispatch a worker issues at most one HTTP POST: none
\* when its credential does not resolve, and exactly one, whatever that POST
\* came back with, once its handler has returned.
C13_NoRetry ==
    \A w \in Workers :
        /\ posts[w] <= 1
        /\ KeyMissing(w) => posts[w] = 0
        /\ (HasOutcome(w) /\ ~KeyMissing(w)) => posts[w] = 1
        /\ posts[w] = 0 => sent[w] = NoRequest

\* a dispatch returned in which one worker had no credential and issued no
\* POST and another got a 500 and issued one
C13_Witness ==
    /\ Returned
    /\ \E a, b \in Workers :
          /\ KeyMissing(a)
          /\ posts[a] = 0
          /\ got[b] = ReplyStatus(500)
          /\ posts[b] = 1

\* a worker that has issued its POST holds the non-empty secret its own
\* lookup returned
C14_PostedWithKey ==
    \A w \in Workers :
        posts[w] > 0 =>
            /\ pc[w] \notin {"new", "lookup", "post"}
            /\ api_key[w] # ""
            /\ api_key[w] = get_api_key(objects[arg(w)].api_id)

\* C14: within one worker the credential lookup strictly precedes the network
\* call: the step that issues a worker's POST is taken only after that
\* worker's lookup has returned a non-empty secret, it is never the lookup
\* step itself, and a worker that has posted holds the secret of its own lookup.
C14_LookupBeforePost ==
    /\ []C14_PostedWithKey
    /\ [][\A w \in Workers :
            posts'[w] # posts[w] =>
                /\ pc[w] = "post"
                /\ api_key[w] # ""
                /\ api_key'[w] = api_key[w]]_vars
    /\ [][\A w \in Workers :
            api_key'[w] # api_key[w] =>
                /\ pc[w] = "lookup"
                /\ posts[w] = 0
                /\ posts'[w] = 0]_vars

\* a worker's POST is in flight with the secret of its own lookup while its
\* sibling has not yet looked its credential up
C14_Witness ==
    \E a, b \in Workers :
        /\ pc[a] = "inflight"
        /\ posts[a] = 1
        /\ api_key[a] = "gsk-groq"
        /\ pc[b] = "lookup"
        /\ posts[b] = 0

\* C15: no bound on concurrency.  Every worker is started before the
\* dispatcher waits on any worker; starting a worker never waits for a worker
\* started before it, and a worker's POST never waits for the call of another
\* worker that is in flight, so every worker with a credential can have its
\* call in flight while all the others are in flight.
C15_NoConcurrencyBound ==
    /\ pcMain \in {"join", "returned"} =>
          /\ Len(threads) = Len(models)
          /\ \A w \in Workers : pc[w] # "new"
    /\ joined > 0 => pcMain \in {"join", "returned"}
    /\ (pcMain = "start" /\ Len(threads) < Len(models)) => ENABLED StartThread
    /\ \A w \in Workers :
          (pc[w] = "post" /\ \E v \in Workers : pc[v] = "inflight") =>
              ENABLED Post(w)

\* a dispatch of the largest list, every credential set, with the HTTP calls
\* of all its workers in flight at the same time and none come back
C15_Witness ==
    /\ Len(models) = MaxModels
    /\ \A w \in Workers :
          /\ ~KeyMissing(w)
          /\ pc[w] = "inflight"
          /\ posts[w] = 1
          /\ got[w] = NoReply

\* the HTTP call of worker w is still to come back
Pending(w) == pc[w] \in {"lookup", "post", "inflight"}

\* C16: a slow worker does not block faster ones.  A worker never holds the
\* lock before its HTTP call has come back, so a worker whose call is over
\* can take the free lock, append its result and run its callback while the
\* call of another worker is still pending; only the return of the dispatch
\* waits for the slow worker.
C16_SlowDoesNotBlock ==
    /\ \A w \in Workers : (pc[w] = "new" \/ Pending(w)) => lock # w
    /\ \A w \in Workers :
          (\E v \in Workers : Pending(v)) =>
              /\ (pc[w] = "acquire" /\ lock = 0) => ENABLED Acquire(w)
              /\ pc[w] = "append" => ENABLED AppendResult(w)
              /\ pc[w] = "callback" => ENABLED Callback(w)
    /\ (\E v \in Workers : Pending(v)) => ~Returned /\ ~ENABLED Return

\* the second worker has appended its result and run its callback while the
\* call of the first is still in flight and the dispatcher waits in join
C16_Witness ==
    /\ Len(models) = 2
    /\ callback
    /\ pcMain = "join"
    /\ pc[1] = "inflight"
    /\ pc[2] = "done"
    /\ Len(results) = 1
    /\ results[1].model = arg(2)
    /\ Len(calls) = 1
    /\ lock = 0

\* the entries are those of the workers that took the lock, with the entry of
\* the present holder, once appended, the last; the callbacks were invoked in
\* the order of the entries
C17_HolderIsLast ==
    /\ \A w \in Workers :
          /\ pc[w] = "append" => EntriesOf(arg(w)) = {}
          /\ pc[w] = "callback" => EntriesOf(arg(w)) = {Len(results)}
          /\ pc[w] \in {"new", "lookup", "post", "inflight", "acquire"} =>
                EntriesOf(arg(w)) = {}
    /\ \A k \in 1..Len(calls) :
          /\ k <= Len(results)
          /\ calls[k].args[1] = results[k].model
          /\ arg(calls[k].holder) = results[k].model

\* C17: the order of the result list is the order in which the workers
\* acquired the lock: a worker takes the free lock with no entry of its own
\* in the list, the only entry added while it holds the lock is its own, at
\* the end of the list, and it gives the lock up only after that; the
\* callbacks are invoked in the same order.  The order need not be the input
\* order.
C17_CompletionOrder ==
    /\ []C17_HolderIsLast
    /\ [][(lock' # lock /\ lock' # 0) =>
             /\ lock = 0
             /\ lock' \in Workers
             /\ EntriesOf(arg(lock')) = {}
             /\ results' = results]_vars
    /\ [][results' # results =>
             /\ lock # 0
             /\ results' = Append(results, ResultEntry(lock))]_vars
    /\ [][(lock # 0 /\ lock' = 0) =>
             /\ Len(results') > 0
             /\ results'[Len(results')].model = arg(lock)]_vars

\* a dispatch with a callback returned with the results and the callbacks in
\* the reverse of the input order
C17_Witness ==
    /\ Returned
    /\ callback
    /\ Len(models) = 2
    /\ results[1].model = models[2]
    /\ results[2].model = models[1]
    /\ calls[1].args[1] = models[2]
    /\ calls[2].args[1] = models[1]

\* C18: termination.  With HTTP calls that come back, callbacks that end and
\* a scheduler that keeps running the threads, send_to_all_models returns
\* with every worker ended and the lock free, and every worker that waits
\* for the lock gets it.
C18_Termination ==
    /\ <>(Returned /\ lock = 0 /\ \A w \in Workers : pc[w] = "done")
    /\ \A w \in 1..MaxModels :
          (w \in Workers /\ pc[w] = "acquire") ~> (w \in Workers /\ lock = w)

\* a dispatch returned after the call of worker 1 hit its timeout and the
\* call of worker 2 came back with an answer, worker 2 taking the lock first
C18_Witness ==
    /\ Returned
    /\ Len(models) = 2
    /\ TimedOut(1)
    /\ got[2] # NoReply
    /\ \A w \in Workers : pc[w] = "done"
    /\ Len(results) = 2
    /\ results[1].model = arg(2)
    /\ lock = 0

\* two characters equal up to the case of a letter
SameLetter(a, b) ==
    \/ a = b
    \/ \E k \in 1..Len(Upper) : {a, b} = {Upper[k], Lower[k]}

\* the URL has the marker somewhere in it, in any case
HasMarker(url, marker) ==
    \E k \in 1..(Len(url) - Len(marker) + 1) :
        \A m \in 1..Len(marker) : SameLetter(url[k + m - 1], marker[m])

\* the fixed, ordered list of markers
Markers ==
    << [kind |-> "openai", marker |-> openai_com],
       [kind |-> "deepseek", marker |-> deepseek_com],
       [kind |-> "groq", marker |-> groq_com] >>

\* the kind of the first marker of the list the URL has, generic when none
FirstMarkerKind(url) ==
    LET hits == { i \in 1..Len(Markers) : HasMarker(url, Markers[i].marker) } IN
    IF hits = {} THEN "generic"
    ELSE Markers[CHOOSE i \in hits : \A j \in hits : i <= j].kind

\* C19: detect_api_type is a pure, case-insensitive, ordered substring
\* classifier: the kind a worker got for its URL is that of the first of the
\* markers openai.com, deepseek.com, groq.com the URL contains in any case,
\* generic when it contains none; it is what detect_api_type gives for that
\* URL in every later state of the dispatch, and two workers with the same
\* URL got the same kind.
C19_OrderedClassifier ==
    \A w \in Workers :
        posts[w] > 0 =>
            /\ api_type[w] = FirstMarkerKind(objects[arg(w)].api_url)
            /\ api_type[w] = detect_api_type(objects[arg(w)].api_url)
            /\ \A v \in Workers :
                  (posts[v] > 0 /\ objects[arg(v)].api_url = objects[arg(w)].api_url)
                      => api_type[v] = api_type[w]

\* a dispatch returned in which both workers had the URL with the groq.com
\* marker before the openai.com one, that one in upper and mixed case, and
\* both classified it openai
C19_Witness ==
    /\ Returned
    /\ HasMarker(objects[arg(1)].api_url, groq_com)
    /\ HasMarker(objects[arg(1)].api_url, openai_com)
    /\ ~contains(openai_com, objects[arg(1)].api_url)
    /\ objects[arg(2)].api_url = objects[arg(1)].api_url
    /\ api_type[1] = "openai"
    /\ api_type[2] = "openai"

\* the secret the credential identifier of worker w resolves to
OwnSecret(w) == get_api_key(objects[arg(w)].api_id)

\* C20: each request carries the credential of its own endpoint.  The POST of
\* a worker goes to the URL of its own Model with exactly two headers:
\* Authorization, 'Bearer ' followed by the secret resolved from that Model's
\* own credential identifier and never the secret of a sibling, and
\* Content-Type application/json, whatever the dialect.
C20_OwnCredential ==
    \A w \in Workers :
        posts[w] > 0 =>
            /\ sent[w].url = objects[arg(w)].api_url
            /\ DOMAIN sent[w].headers = {"Authorization", "Content-Type"}
            /\ sent[w].headers["Authorization"] = <<"Bearer ", OwnSecret(w)>>
            /\ OwnSecret(w) # ""
            /\ \A v \in Workers \ {w} :
                  sent[w].headers["Authorization"][2] # OwnSecret(v)
            /\ sent[w].headers["Content-Type"] = <<"application/json">>

\* two workers of different dialects have both posted, each with the secret
\* of its own credential identifier
C20_Witness ==
    /\ Len(models) = 2
    /\ posts[1] = 1
    /\ posts[2] = 1
    /\ api_type[1] = "groq"
    /\ api_type[2] = "generic"
    /\ sent[1].headers["Authorization"] = <<"Bearer ", "gsk-groq">>
    /\ sent[2].headers["Authorization"] = <<"Bearer ", "local-secret">>

\* the JSON body of the POST of worker w
SentBody(w) == sent[w].json

\* C21: for every dialect the 'messages' of the request body is a list of
\* exactly one message, with role 'user' and with the prompt passed to the
\* dispatch as its content, unchanged; all the workers of a dispatch send the
\* same prompt.
C21_SingleUserMessage ==
    \A w \in Workers :
        posts[w] > 0 =>
            /\ SentBody(w).t = "obj"
            /\ "messages" \in DOMAIN SentBody(w).v
            /\ SentBody(w).v["messages"].t = "arr"
            /\ Len(SentBody(w).v["messages"].v) = 1
            /\ LET m == SentBody(w).v["messages"].v[1] IN
                  /\ m.t = "obj"
                  /\ DOMAIN m.v = {"role", "content"}
                  /\ m.v["role"] = [t |-> "str", v |-> <<"user">>]
                  /\ m.v["content"] = [t |-> "str", v |-> <<prompt>>]
            /\ \A v \in Workers :
                  posts[v] > 0 =>
                      SentBody(v).v["messages"] = SentBody(w).v["messages"]

\* a generic and a deepseek worker have both posted the prompt with spaces and
\* newlines at its ends
C21_Witness ==
    /\ prompt # "hello"
    /\ posts[1] = 1
    /\ posts[2] = 1
    /\ api_type[1] = "generic"
    /\ api_type[2] = "deepseek"
    /\ SentBody(1).v["messages"].v[1].v["content"].v[1] = prompt

\* the name has the word somewhere in it, in any case; with hyphens set, a
\* space of the name also stands for a hyphen of the word
NameHas(name, word, hyphens) ==
    \E k \in 1..(Len(name) - Len(word) + 1) :
        \A m \in 1..Len(word) :
            \/ SameLetter(name[k + m - 1], word[m])
            \/ hyphens /\ word[m] = "-" /\ name[k + m - 1] = " "

\* the 'model' of the request body as the selection rule gives it
SelectedModel(kind, name) ==
    IF kind = "openai"
    THEN JStr(IF NameHas(name, gpt_4, TRUE) THEN "gpt-4" ELSE "gpt-3.5-turbo")
    ELSE IF kind = "groq"
    THEN JStr(IF NameHas(name, llama, FALSE) THEN "llama3-8b-8192"
              ELSE IF NameHas(name, mixtral, FALSE) THEN "mixtral-8x7b-32768"
              ELSE "llama3-8b-8192")
    ELSE IF kind = "deepseek" THEN JStr("deepseek-chat")
    ELSE [t |-> "str", v |-> name]

\* C22: model-id selection.  The 'model' of the request body is, for openai,
\* 'gpt-4' when the name, lower-cased and with hyphens for spaces, contains
\* 'gpt-4' and 'gpt-3.5-turbo' otherwise; for groq, 'llama3-8b-8192' when the
\* lower-cased name contains 'llama', else 'mixtral-8x7b-32768' when it
\* contains 'mixtral', else 'llama3-8b-8192'; for deepseek always
\* 'deepseek-chat'; for generic the name itself.
C22_ModelIdSelection ==
    \A w \in Workers :
        posts[w] > 0 =>
            /\ "model" \in DOMAIN SentBody(w).v
            /\ SentBody(w).v["model"] =
                  SelectedModel(api_type[w], objects[arg(w)].name)

\* a groq worker whose name has both 'mixtral' and 'llama', 'mixtral' first,
\* has posted with the llama id
C22_Witness ==
    \E w \in Workers :
        /\ posts[w] = 1
        /\ api_type[w] = "groq"
        /\ NameHas(objects[arg(w)].name, mixtral, FALSE)
        /\ NameHas(objects[arg(w)].name, llama, FALSE)
        /\ SentBody(w).v["model"] = JStr("llama3-8b-8192")

\* C23: the request body has 'temperature' equal to 0.7 for the openai and
\* deepseek dialects and no 'temperature' key for the generic and groq
\* dialects; its only other keys are 'model' and 'messages'.
C23_Temperature ==
    \A w \in Workers :
        posts[w] > 0 =>
            IF api_type[w] \in {"openai", "deepseek"}
            THEN /\ DOMAIN SentBody(w).v = {"model", "messages", "temperature"}
                 /\ SentBody(w).v["temperature"] = [t |-> "num", v |-> <<7, 10>>]
            ELSE /\ api_type[w] \in {"groq", "generic"}
                 /\ DOMAIN SentBody(w).v = {"model", "messages"}

\* a groq worker has posted a body without 'temperature' and its deepseek
\* sibling a body with it
C23_Witness ==
    /\ posts[1] = 1
    /\ api_type[1] = "groq"
    /\ "temperature" \notin DOMAIN SentBody(1).v
    /\ posts[2] = 1
    /\ api_type[2] = "deepseek"
    /\ "temperature" \in DOMAIN SentBody(2).v

\* every Model object of the list has the fields of its row of the catalogue
C24_ConfigsAsPassed ==
    /\ DOMAIN objects = InputModels
    /\ \A m \in InputModels : objects[m] = Catalogue[m]

\* C24: a dispatch leaves the endpoint configs unchanged: no step changes a
\* field (name, URL, credential identifier, active flag) of a Model object or
\* reorders, extends or shortens the input list, so when send_to_all_models
\* has returned they are as they were passed.
C24_InputsUnchanged ==
    /\ []C24_ConfigsAsPassed
    /\ [][objects' = objects /\ models' = models]_vars

\* a dispatch of two Model objects, one of them inactive, returned after both
\* had posted, with an entry for each
C24_Witness ==
    /\ Returned
    /\ Len(models) = 2
    /\ \A w \in Workers : posts[w] = 1
    /\ \E w \in Workers : objects[arg(w)].is_active = 0
    /\ Len(results) = 2

\* the first element of a non-empty 'choices'
FirstChoice(b) == b.v["choices"].v[1]

\* worker w is a generic one whose POST came back with a decoded 2xx body
GenericDecoded(w) ==
    /\ HasOutcome(w)
    /\ api_type[w] = "generic"
    /\ Decoded(w)
    /\ Body(w).t = "obj"

\* C25 as stated: the generic parser, given a non-empty 'choices', succeeds
\* with choices[0].message.content when the first choice has a 'message' key
\* and with the stringified first choice when it has none; top-level
\* 'content' and 'text' are used only when 'choices' is missing or empty.
C25_MessageGivesContent ==
    \A w \in Workers :
        (GenericDecoded(w) /\ ChatShaped(Body(w))) =>
            IF NonEmptyChoices(Body(w))
            THEN /\ success[w]
                 /\ IF HasField(FirstChoice(Body(w)), "message")
                    THEN /\ HasChoiceContent(Body(w))
                         /\ response[w] = ChoiceContent(Body(w))
                    ELSE response[w] = py_str(FirstChoice(Body(w)))
            ELSE <<success[w], response[w]>> = TopLevelChain(Body(w))

\* C25 amended: the generic parser, given a non-empty 'choices' whose first
\* element is an object, succeeds with choices[0].message.content when the
\* 'message' of the first choice is an object with a 'content' key, and with
\* the stringified first choice both when the 'message' key is absent and
\* when the 'message' object has no 'content' key; a 'message' that is no
\* object gives the unexpected-error failure.  A non-empty 'choices' takes
\* precedence over top-level 'content' and 'text', which are used only when
\* 'choices' is missing or empty.
C25_GenericFirstChoice ==
    \A w \in Workers :
        (/\ GenericDecoded(w)
         /\ HasField(Body(w), "choices") => Body(w).v["choices"].t = "arr"
         /\ NonEmptyChoices(Body(w)) => FirstChoice(Body(w)).t = "obj") =>
            IF NonEmptyChoices(Body(w))
            THEN IF ~HasField(FirstChoice(Body(w)), "message")
                 THEN /\ success[w]
                      /\ response[w] = py_str(FirstChoice(Body(w)))
                 ELSE IF FirstChoice(Body(w)).v["message"].t # "obj"
                 THEN /\ ~success[w]
                      /\ response[w].v[1] = "Unexpected error: "
                 ELSE IF HasChoiceContent(Body(w))
                 THEN /\ success[w]
                      /\ response[w] = ChoiceContent(Body(w))
                 ELSE /\ success[w]
                      /\ response[w] = py_str(FirstChoice(Body(w)))
            ELSE <<success[w], response[w]>> = TopLevelChain(Body(w))

\* a generic worker got a 200 body whose first choice has an empty 'message'
\* and succeeded with the stringified choice
C25_Witness ==
    \E w \in Workers :
        /\ GenericDecoded(w)
        /\ got[w] = ReplyJson(200, JObj([choices |->
                                            JArr(<<JObj([message |-> JObj(EmptyDict)])>>)]))
        /\ success[w]
        /\ response[w] = [t |-> "repr", v |-> JObj([message |-> JObj(EmptyDict)])]

\* worker w is an openai, deepseek or groq one whose POST came back with a
\* decoded 2xx body that has a non-empty 'choices' list but no
\* choices[0].message.content
StrictWithoutContent(w) ==
    /\ posts[w] > 0
    /\ api_type[w] \in {"openai", "deepseek", "groq"}
    /\ Decoded(w)
    /\ NonEmptyChoices(Body(w))
    /\ ~HasChoiceContent(Body(w))

\* C26: for the openai, deepseek and groq parsers a 2xx body whose 'choices'
\* is non-empty but whose first element lacks 'message' or 'content' gives a
\* failure with the unexpected-error message, not the format message and not
\* a success from top-level 'content' or 'text', and no exception leaves the
\* worker: it goes on to record that failure.
C26_StrictParsersFail ==
    \A w \in Workers :
        (StrictWithoutContent(w) /\ pc[w] # "inflight") =>
            /\ HasOutcome(w)
            /\ ~died[w] \/ \E k \in 1..Len(calls) : calls[k].holder = w
            /\ ~success[w]
            /\ response[w] # MsgFormat
            /\ response[w].t = "str"
            /\ response[w].v[1] = "Unexpected error: "
            /\ \A k \in EntriesOf(arg(w)) :
                  <<results[k].success, results[k].response>> = <<FALSE, response[w]>>

\* an openai worker got a 200 body whose first choice has no 'message' but
\* which has a top-level 'content', and recorded the unexpected-error failure
C26_Witness ==
    \E w \in Workers :
        /\ pc[w] = "done"
        /\ api_type[w] = "openai"
        /\ StrictWithoutContent(w)
        /\ HasField(Body(w), "content")
        /\ \E k \in EntriesOf(arg(w)) :
              /\ ~results[k].success
              /\ results[k].response.v = <<"Unexpected error: ", "message">>

\* C27: a callback that raises does so inside the with block, after the
\* append: the lock is released all the same, the worker's entry stays in
\* the list and its thread is over; the lock is only ever held by a worker
\* inside its section, so a worker waiting for the lock can take it whenever
\* it is free, and the dispatcher, whose join of an ended thread returns,
\* returns one entry per model.
C27_RaisingCallbackReleases ==
    /\ lock # 0 => lock \in Workers /\ InSection(lock)
    /\ \A w \in Workers :
          died[w] =>
              /\ pc[w] = "done"
              /\ lock # w
              /\ Cardinality(EntriesOf(arg(w))) = 1
              /\ \A k \in EntriesOf(arg(w)) : results[k] = ResultEntry(w)
              /\ \E k \in 1..Len(calls) : calls[k].holder = w
              /\ \A v \in Workers :
                    (pc[v] = "acquire" /\ lock = 0) => ENABLED Acquire(v)
              /\ (pcMain = "join" /\ joined = w - 1) => ENABLED JoinThread
    /\ Returned =>
          /\ Len(results) = Len(models)
          /\ \A w \in Workers : Cardinality(EntriesOf(arg(w))) = 1

\* the callback of the first worker to finish raised; the second worker then
\* took the lock, appended and ran its callback, and the dispatcher returned
\* both entries
C27_Witness ==
    /\ Returned
    /\ Len(models) = 2
    /\ \E w, v \in Workers :
          /\ died[w]
          /\ ~died[v]
          /\ results[1] = ResultEntry(w)
          /\ results[2] = ResultEntry(v)
          /\ calls[1].holder = w
          /\ calls[2].holder = v

\* the outcome of worker w's pipeline had its Model been an active one
OutcomeAsActive(w) ==
    LET model == [objects[arg(w)] EXCEPT !.is_active = 1] IN
    IF get_api_key(model.api_id) = ""
    THEN <<FALSE, MsgNoKey(model.api_id)>>
    ELSE send_request_by_type(detect_api_type(model.api_url), model, prompt,
                              get_api_key(model.api_id), timeout, got[w]).val

\* C29: send_to_all_models does not look at is_active: a Model whose
\* is_active is 0 gets its thread like any other, its credential is looked
\* up, its POST is made once when the credential resolves, and its entry, the
\* outcome an active Model with the same fields would have, is in the list
\* returned.
C29_InactiveDispatched ==
    \A w \in Workers :
        objects[arg(w)].is_active = 0 =>
            /\ pcMain \in {"join", "returned"} => pc[w] # "new" /\ threads[w] = w
            /\ HasOutcome(w) => posts[w] = (IF KeyMissing(w) THEN 0 ELSE 1)
            /\ (pc[w] = "done" \/ Returned) =>
                  /\ Cardinality(EntriesOf(arg(w))) = 1
                  /\ \A k \in EntriesOf(arg(w)) :
                        <<results[k].success, results[k].response>> = OutcomeAsActive(w)

\* a dispatch of an active and an inactive Model returned; the inactive
\* Model's POST was made and its entry is a success
C29_Witness ==
    /\ Returned
    /\ Len(models) = 2
    /\ \E w, v \in Workers :
          /\ objects[arg(w)].is_active = 0
          /\ objects[arg(v)].is_active = 1
          /\ posts[w] = 1
          /\ \E k \in EntriesOf(arg(w)) : results[k].success

\* the entries of the second call's list that refer to Model m
OtherEntriesOf(m) == { k \in 1..Len(other.results) : other.results[k].model = m }

\* C28: each call of send_to_all_models has its own result list, thread list
\* and lock.  With two calls running concurrently over the same Model
\* objects, every entry of a call's list was appended by a worker of that
\* call and is the outcome of that worker's own request (made with the
\* call's own timeout); a call's lock is held only by a worker of that call,
\* and a worker that waits for its call's lock, when that lock is free, can
\* take it whatever the state of the other call's lock; each call returns
\* exactly one entry per Model of its own list.
C28_DispatchesIndependent ==
    /\ \A k \in 1..Len(results) :
          \E w \in Workers :
              /\ pc[w] \in {"callback", "done"}
              /\ results[k] = ResultEntry(w)
              /\ <<results[k].success, results[k].response>> = OwnOutcome(w)
              /\ EntriesOf(arg(w)) = {k}
    /\ \A k \in 1..Len(other.results) :
          \E w \in OtherWorkers :
              /\ other.pc[w] = "done"
              /\ other.results[k] = OtherResultEntry(w)
              /\ <<other.results[k].success, other.results[k].response>>
                    = OtherOutcome(w, other.got[w]).val
              /\ OtherEntriesOf(OtherArg(w)) = {k}
    /\ threads \in Seq(Workers) /\ other.threads \in Seq(OtherWorkers)
    /\ lock # 0 => lock \in Workers /\ InSection(lock)
    /\ other.lock # 0 => other.lock \in OtherWorkers /\ other.pc[other.lock] = "append"
    /\ \A w \in Workers : (pc[w] = "acquire" /\ lock = 0) => ENABLED Acquire(w)
    /\ \A w \in OtherWorkers :
          (other.pc[w] = "acquire" /\ other.lock = 0) => ENABLED OtherAcquire(w)
    /\ Returned =>
          /\ Len(results) = Len(models)
          /\ ResultModels = InputModels
    /\ other.pcMain = "returned" =>
          /\ Len(other.results) = Len(other.models)
          /\ \A w \in OtherWorkers : Cardinality(OtherEntriesOf(OtherArg(w))) = 1

\* both calls returned: the first its two entries, the second its one, and
\* for the Model both were given the first call's request timed out while
\* the second's succeeded
C28_Witness ==
    /\ Returned
    /\ other.pcMain = "returned"
    /\ Len(results) = 2
    /\ other.models = <<2>>
    /\ Len(other.results) = 1
    /\ other.results[1].success
    /\ \E k \in EntriesOf(2) :
          /\ ~results[k].success
          /\ results[k].response = MsgTimeout(DEFAULT_TIMEOUT)

\* the number of entries of list l equal to e
CountOf(l, e) == Cardinality({ k \in 1..Len(l) : l[k] = e })

\* list a is list b up to a permutation
SameUpToPermutation(a, b) ==
    /\ Len(a) = Len(b)
    /\ \A k \in 1..Len(a) : CountOf(a, a[k]) = CountOf(b, a[k])

\* the RequestThread calls send_request_to_model for the Models of the list
\* in order, one call at a time, and appends each result in that order
RunSequential ==
    /\ gui.inflight \in {0, 1}
    /\ gui.inflight = 1 <=> gui.pc = "call"
    /\ gui.called = SubSeq(models, 1, Len(gui.called))
    /\ Len(gui.called) = Len(gui.results) + gui.inflight
    /\ gui.pc # "dead"
    /\ \A k \in 1..Len(gui.results) :
          /\ gui.results[k].model = models[k]
          /\ <<gui.results[k].success, gui.results[k].response>> = RunOutcome(k).val

\* 'finished' is emitted at most once, after the last call, with the N
\* results
RunEmitsOnce ==
    /\ Len(gui.emitted) <= 1
    /\ Len(gui.emitted) = 1 <=> gui.pc = "finished"
    /\ gui.pc = "finished" =>
          /\ gui.called = models
          /\ gui.emitted[1] = gui.results
          /\ Len(gui.results) = Len(models)
    /\ (gui.pc = "loop" /\ gui.i > Len(models)) => ENABLED RequestThreadEmit

\* C30 as stated: the RequestThread is sequential and in input order, emits
\* 'finished' once with N results, and the list it emits equals the list
\* send_to_all_models returns up to a permutation.
C30_SameListAsDispatch ==
    /\ RunSequential
    /\ RunEmitsOnce
    /\ (gui.pc = "finished" /\ Returned) =>
          SameUpToPermutation(gui.emitted[1], results)

\* C30, amended: the RequestThread is sequential and in input order and emits
\* 'finished' once with N results in input order; the list it emits equals
\* the list send_to_all_models returns up to a permutation when the dispatch
\* was given the default timeout or none of its requests timed out, and
\* otherwise differs from it only in the entries of the requests that timed
\* out, which carry the default timeout in the RequestThread's list and the
\* timeout of the dispatch in the dispatch's list.
C30_SequentialCounterpart ==
    /\ RunSequential
    /\ RunEmitsOnce
    /\ (gui.pc = "finished" /\ Returned) =>
          /\ (timeout = DEFAULT_TIMEOUT \/ \A w \in Workers : ~TimedOut(w)) =>
                SameUpToPermutation(gui.emitted[1], results)
          /\ \A w \in Workers :
                LET e == gui.emitted[1][w] IN
                IF TimedOut(w)
                THEN /\ e = [model |-> arg(w), success |-> FALSE,
                             response |-> MsgTimeout(DEFAULT_TIMEOUT)]
                     /\ CountOf(results, [e EXCEPT !.response = MsgTimeout(timeout)]) = 1
                ELSE CountOf(results, e) = 1

\* the dispatch returned its two results in the reverse of the input order
\* and the RequestThread emitted the same two, a failure and a success, in
\* input order
C30_Witness ==
    /\ Returned
    /\ gui.pc = "finished"
    /\ Len(models) = 2
    /\ timeout = DEFAULT_TIMEOUT
    /\ gui.emitted = <<gui.results>>
    /\ gui.results[1] = results[2]
    /\ gui.results[2] = results[1]
    /\ ~gui.results[1].success
    /\ gui.results[2].success

====
